---- MODULE Spec2Model ----
(***************************************************************************)
(* Model of the SmartTodoList backend (Django 4.2.7 / Django REST          *)
(* framework): the AIRequest lifecycle record, the derived properties of  *)
(* Task, ContextEntry and AIModelPerformance, the handlers of the task,    *)
(* comment, context entry and insight APIs, and two callers running the   *)
(* AIRequest methods concurrently.                                        *)
(*                                                                         *)
(* Conventions.  A nullable field holds None (the empty tuple) or Some(x)  *)
(* (a one-element tuple).  A database table is a function from primary key *)
(* to row; its DOMAIN is the set of rows that exist.  Floats with one      *)
(* decimal are integers in tenths (Tenths(80) is 80.0, 799 is 79.9), with  *)
(* two decimals in hundredths.  A request body is a function from field    *)
(* names to values; a response is its status with the keys of its errors.  *)
(* Time is a counter, `now`, advanced by Tick.                             *)
(***************************************************************************)
EXTENDS Integers, Sequences, FiniteSets, TLC

VARIABLES
    now,        \* the clock that django.utils.timezone.now() reads
    response,   \* outcome of the last call: its status (an HTTP status, "ok" or the
                \* exception raised), the keys of its error body and the
                \* results it reports
    ai_db,      \* table ai_integration_airequest: pk -> stored row
    ai_obj,     \* the Python AIRequest instance held by the caller, per pk
    ai_perf,    \* table ai_integration_aimodelperformance: set of rows
    tasks,      \* table tasks_task: pk -> stored row
    task_seq,   \* the last primary key the tasks table has assigned
    categories, \* table tasks_category: the primary keys that exist
    cat_seq,    \* the last primary key the category table has assigned
    inst,       \* a model instance handed to the derived properties
    derived,    \* what the derived properties returned for inst
    entries,    \* table context_contextentry: pk -> stored row
    entry_seq,  \* the last primary key the context entry table has assigned
    insights,   \* table context_contextinsight: pk -> stored row
    comments,   \* table tasks_taskcomment: pk -> stored row
    calls       \* the method calls in flight on one AIRequest: for each its
                \* position and the instance it loaded

vars == <<now, response, ai_db, ai_obj, ai_perf, tasks, task_seq, categories, cat_seq,
          inst, derived, entries, entry_seq, insights, comments, calls>>

aiVars == <<ai_db, ai_obj, ai_perf>>
taskVars == <<tasks, task_seq, categories, cat_seq>>
derivedVars == <<inst, derived>>
contextVars == <<entries, entry_seq>>
insightVars == <<insights>>
commentVars == <<comments>>
raceVars == <<calls>>
sideVars == <<insightVars, commentVars, raceVars>>

(***************************************************************************)
(* Bounds of the model.                                                    *)
(***************************************************************************)
MaxTime == 2
MaxRequests == 2
MaxTasks == 2
MaxCategories == 1
MaxEntries == 2
MaxCount == 10
MaxContentLen == 250
MaxInsights == 2
MaxComments == 2

\* The length from which ContextEntry.content_preview cuts the content.
PreviewLength == 100

None == <<>>
Some(x) == <<x>>

\* A response without a body the model reads, a 400 response whose body is
\* `errors` (pairs of a key and the code or text of its error), and a 200
\* response that reports `results`.
Resp(code) == [status |-> code, errors |-> {}, results |-> <<>>]
BadRequest(errors) == [status |-> "400", errors |-> errors, results |-> <<>>]
Ok(results) == [status |-> "200", errors |-> {}, results |-> results]
Tenths(x) == x * 10

Times == 1..MaxTime

(***************************************************************************)
(* `from django.db import models` followed by `models.timezone.now()`.     *)
(* The package django.db.models (Django 4.2.7, the version the migrations  *)
(* name) exports no attribute `timezone`: its __init__ imports its         *)
(* submodules' names through their __all__ lists, and none lists it.  Each *)
(* evaluation of `models.timezone` therefore raises AttributeError; the    *)
(* statements after it in the same method do not run.  (The views and      *)
(* serializers import django.utils.timezone and are not affected.)         *)
(***************************************************************************)
ModelsHasTimezone == FALSE

\* Python truthiness of an optional number: None and 0 are falsy.
Truthy(v) == v # None /\ v[1] # 0

(***************************************************************************)
(* AIRequest                                                               *)
(***************************************************************************)
AI_STATUS_CHOICES == {"pending", "processing", "completed", "failed", "timeout"}
AI_TERMINAL == {"completed", "failed", "timeout"}
REQUEST_TYPES == {"context_analysis", "task_prioritization"}
ResponseData == {"x1", "x2"}
ErrorMessages == {"e1", "e2"}
ProcessingTimes == {None, Some(0), Some(5)}

\* Field defaults of a new AIRequest row.
AIRequestNew(rt) ==
    [ request_type    |-> rt,
      model_name      |-> "",
      status          |-> "pending",
      response_data   |-> None,
      processing_time |-> None,
      error_message   |-> "",
      retry_count     |-> 0,
      completed_at    |-> None ]

\* AIRequest.objects.create(...): the row is inserted and the instance returned.
AIRequestCreate(rt) ==
    LET id == Cardinality(DOMAIN ai_db) + 1 IN
    /\ id <= MaxRequests
    /\ ai_db' = [i \in DOMAIN ai_db \cup {id} |->
                    IF i = id THEN AIRequestNew(rt) ELSE ai_db[i]]
    /\ ai_obj' = [i \in DOMAIN ai_obj \cup {id} |->
                    IF i = id THEN AIRequestNew(rt) ELSE ai_obj[i]]
    /\ response' = Resp("ok")
    /\ UNCHANGED <<now, sideVars, ai_perf, taskVars, derivedVars, contextVars>>

\* AIRequest.mark_completed(self, response_data, processing_time=None)
AIRequest_mark_completed(id, rd, pt) ==
    /\ id \in DOMAIN ai_obj
    /\ IF ModelsHasTimezone
       THEN LET o == [ai_obj[id] EXCEPT
                        !.status = "completed",
                        !.response_data = Some(rd),
                        !.completed_at = Some(now),
                        !.processing_time = IF Truthy(pt) THEN pt ELSE @]
            IN /\ ai_obj' = [ai_obj EXCEPT ![id] = o]
               /\ ai_db' = [ai_db EXCEPT ![id] = o]          \* self.save()
               /\ response' = Resp("ok")
       ELSE \* lines 84-85 ran, line 86 raised
            /\ ai_obj' = [ai_obj EXCEPT ![id] =
                            [@ EXCEPT !.status = "completed",
                                      !.response_data = Some(rd)]]
            /\ ai_db' = ai_db
            /\ response' = Resp("AttributeError")
    /\ UNCHANGED <<now, sideVars, ai_perf, taskVars, derivedVars, contextVars>>

\* AIRequest.mark_failed(self, error_message)
AIRequest_mark_failed(id, msg) ==
    /\ id \in DOMAIN ai_obj
    /\ IF ModelsHasTimezone
       THEN LET o == [ai_obj[id] EXCEPT
                        !.status = "failed",
                        !.error_message = msg,
                        !.completed_at = Some(now)]
            IN /\ ai_obj' = [ai_obj EXCEPT ![id] = o]
               /\ ai_db' = [ai_db EXCEPT ![id] = o]          \* self.save()
               /\ response' = Resp("ok")
       ELSE \* lines 93-94 ran, line 95 raised
            /\ ai_obj' = [ai_obj EXCEPT ![id] =
                            [@ EXCEPT !.status = "failed",
                                      !.error_message = msg]]
            /\ ai_db' = ai_db
            /\ response' = Resp("AttributeError")
    /\ UNCHANGED <<now, sideVars, ai_perf, taskVars, derivedVars, contextVars>>

\* Mutant: as the clock advances, requests still pending are timed out.
TickTimingOut ==
    /\ now < MaxTime
    /\ now' = now + 1
    /\ ai_obj' = [i \in DOMAIN ai_obj |->
                    IF ai_obj[i].status = "pending"
                    THEN [ai_obj[i] EXCEPT !.status = "timeout"]
                    ELSE ai_obj[i]]
    /\ ai_db' = [i \in DOMAIN ai_db |->
                    IF ai_db[i].status = "pending"
                    THEN [ai_db[i] EXCEPT !.status = "timeout"]
                    ELSE ai_db[i]]
    /\ UNCHANGED <<response, sideVars, ai_perf, taskVars, derivedVars, contextVars>>

\* The clock advances.
Tick ==
    /\ now < MaxTime
    /\ now' = now + 1
    /\ UNCHANGED <<response, sideVars, aiVars, taskVars, derivedVars, contextVars>>

\* No insight and no comment is stored, no method call is in flight.
InitSideEmpty ==
    /\ insights = <<>>
    /\ comments = <<>>
    /\ calls = <<>>

InitCommon ==
    /\ now = 1
    /\ response = Resp("none")
    /\ InitSideEmpty

InitAIEmpty ==
    /\ ai_db = <<>>
    /\ ai_obj = <<>>
    /\ ai_perf = {}

InitTasksEmpty ==
    /\ tasks = <<>>
    /\ task_seq = 0
    /\ categories = {}
    /\ cat_seq = 0

InitContextEmpty ==
    /\ entries = <<>>
    /\ entry_seq = 0

InitDerivedIdle ==
    /\ inst = None
    /\ derived = None

InitAI ==
    InitCommon /\ InitAIEmpty /\ InitTasksEmpty /\ InitContextEmpty /\ InitDerivedIdle

MarkCompletedAI == \E id \in 1..MaxRequests, rd \in ResponseData, pt \in ProcessingTimes :
                        AIRequest_mark_completed(id, rd, pt)
MarkFailedAI == \E id \in 1..MaxRequests, msg \in ErrorMessages :
                        AIRequest_mark_failed(id, msg)
CreateAI == \E rt \in REQUEST_TYPES : AIRequestCreate(rt)

NextAI == CreateAI \/ MarkCompletedAI \/ MarkFailedAI \/ Tick

SpecAI == InitAI /\ [][NextAI]_vars

(***************************************************************************)
(* AIModelPerformance: the daily rollup, keyed by (provider, model_name,   *)
(* request_type, date).  No method of the repository writes the table.     *)
(***************************************************************************)
PerfKey(r) == <<r.provider, r.model_name, r.request_type, r.date>>

\* The rollup key of request row o when its terminal transition happens on day d.
RequestPerfKey(o, d) == <<"provider1", o.model_name, o.request_type, d>>

PerfRows(perf, key) == {r \in perf : PerfKey(r) = key}

\* Counter `field` of the rollup row of `key`; the field's default, 0, when no row exists.
PerfCount(perf, key, field) ==
    IF PerfRows(perf, key) = {} THEN 0
    ELSE (CHOOSE r \in PerfRows(perf, key) : TRUE)[field]

(***************************************************************************)
(* Task: the derived-status properties.  They return a Python value or     *)
(* raise; the result is written as a string.                               *)
(***************************************************************************)
STATUS_CHOICES == {"todo", "in_progress", "completed", "cancelled"}

PyBool(b) == IF b THEN "True" ELSE "False"

\* Task.is_overdue
is_overdue(t, n) ==
    IF t.deadline # None /\ t.status \notin {"completed", "cancelled"}
    THEN IF ModelsHasTimezone
         THEN PyBool(t.deadline[1] < n)
         ELSE "AttributeError"
    ELSE "False"

\* Task.urgency_level
urgency_level(t, n) ==
    CASE is_overdue(t, n) = "AttributeError" -> "AttributeError"
      [] is_overdue(t, n) = "True" -> "overdue"
      [] OTHER ->
            IF t.priority_score >= Tenths(80) THEN "critical"
            ELSE IF t.priority_score >= Tenths(60) THEN "high"
            ELSE IF t.priority_score >= Tenths(40) THEN "medium"
            ELSE "low"

\* priority_score values around each threshold, in tenths.
ScoreSamples == {0, 100, 399, 400, 599, 600, 799, 800, 1000}

TaskInstances ==
    [ status         : STATUS_CHOICES,
      deadline       : {None} \cup {Some(t) : t \in Times},
      priority_score : ScoreSamples ]

\* A serializer reads both properties of the instance.
ReadDerived ==
    /\ inst # None
    /\ derived = None
    /\ derived' = Some([ is_overdue    |-> is_overdue(inst[1], now),
                         urgency_level |-> urgency_level(inst[1], now) ])
    /\ response' = Resp("ok")
    /\ UNCHANGED <<now, sideVars, inst, aiVars, taskVars, contextVars>>

InitDerived ==
    /\ now \in Times
    /\ response = Resp("none")
    /\ InitSideEmpty
    /\ InitAIEmpty
    /\ InitTasksEmpty
    /\ InitContextEmpty
    /\ inst \in {Some(t) : t \in TaskInstances}
    /\ derived = None

NextDerived == ReadDerived

SpecDerived == InitDerived /\ [][NextDerived]_vars

(***************************************************************************)
(* The task API: TaskViewSet and CategoryViewSet with their serializers.   *)
(* A request body is a dict: a function from field names to values.  A     *)
(* title is a sequence of characters.                                      *)
(***************************************************************************)
Users == {"alice", "bob"}
TaskIds == 1..MaxTasks
CategoryIds == 1..MaxCategories
PRIORITY_CHOICES == {"low", "medium", "high", "urgent"}

RECURSIVE LStrip(_)
LStrip(s) == IF s # <<>> /\ Head(s) = " " THEN LStrip(Tail(s)) ELSE s

RECURSIVE RStrip(_)
RStrip(s) ==
    IF s # <<>> /\ s[Len(s)] = " " THEN RStrip(SubSeq(s, 1, Len(s) - 1)) ELSE s

\* str.strip()
Strip(s) == RStrip(LStrip(s))

\* Mutant: the title is measured without being stripped.
validate_title_unstripped(value) == ~(Len(value) < 3)

\* TaskCreateUpdateSerializer.validate_title: TRUE when the title is accepted.
validate_title(value) == ~(Len(Strip(value)) < 3)

\* Mutant: the serializer also declares completed_at writable.
CreateUpdateFieldsWithCompletedAt ==
    {"title", "status", "priority", "deadline", "category", "completed_at"}

\* TaskCreateUpdateSerializer.Meta.fields, of which the stored row keeps these
\* (description and the two durations are plain values no handler reads).
CreateUpdateFields == {"title", "status", "priority", "deadline", "category"}

\* Field defaults of a new Task row.
TaskNew(user) ==
    [ title          |-> <<>>,
      status         |-> "todo",
      priority       |-> "medium",
      priority_score |-> Tenths(50),
      deadline       |-> None,
      category       |-> None,
      assigned_to    |-> user,
      completed_at   |-> None ]

\* Mutant: the queryset is not filtered by owner.
get_queryset_all(user) == DOMAIN tasks

\* TaskViewSet.get_queryset: the primary keys of the user's tasks.
get_queryset(user) == {id \in DOMAIN tasks : tasks[id].assigned_to = user}

\* serializer.errors of a create/update body: the fields that fail validation;
\* `partial` is PATCH.  The title field refuses a title that is blank once
\* trimmed before validate_title sees it.
TaskDataErrors(data, partial) ==
    {e \in {<<"title", "required">>} : "title" \notin DOMAIN data /\ ~partial}
    \cup {e \in {<<"title", "blank">>} :
            "title" \in DOMAIN data /\ Strip(data["title"]) = <<>>}
    \cup {e \in {<<"title", "invalid">>} :
            /\ "title" \in DOMAIN data
            /\ Strip(data["title"]) # <<>>
            /\ ~validate_title(data["title"])}
    \cup {e \in {<<"status", "invalid_choice">>} :
            "status" \in DOMAIN data /\ data["status"] \notin STATUS_CHOICES}
    \cup {e \in {<<"priority", "invalid_choice">>} :
            "priority" \in DOMAIN data /\ data["priority"] \notin PRIORITY_CHOICES}
    \cup {e \in {<<"category", "does_not_exist">>} :
            /\ "category" \in DOMAIN data
            /\ data["category"] # None
            /\ data["category"][1] \notin categories}

\* serializer.is_valid()
TaskDataValid(data, partial) == TaskDataErrors(data, partial) = {}

\* serializer.validated_data: the declared fields only, the title stripped.
TaskValidatedData(data) ==
    [k \in DOMAIN data \cap CreateUpdateFields |->
        IF k = "title" THEN Strip(data[k]) ELSE data[k]]

\* setattr(instance, field, value) for each field of d.
SetFields(row, d) ==
    [f \in DOMAIN row |-> IF f \in DOMAIN d THEN d[f] ELSE row[f]]

\* POST /tasks/
TaskCreate(user, data) ==
    /\ task_seq < MaxTasks
    /\ IF TaskDataValid(data, FALSE)
       THEN /\ task_seq' = task_seq + 1
            /\ tasks' = [i \in DOMAIN tasks \cup {task_seq + 1} |->
                            IF i = task_seq + 1
                            THEN SetFields(TaskNew(user), TaskValidatedData(data))
                            ELSE tasks[i]]
            /\ response' = Resp("201")
       ELSE /\ UNCHANGED <<tasks, task_seq>>
            /\ response' = BadRequest(TaskDataErrors(data, FALSE))
    /\ UNCHANGED <<now, sideVars, categories, cat_seq, aiVars, derivedVars, contextVars>>

\* PUT /tasks/{id}/ (partial = FALSE) and PATCH /tasks/{id}/ (partial = TRUE)
TaskUpdate(user, id, data, partial) ==
    /\ IF id \notin get_queryset(user)
       THEN /\ UNCHANGED tasks
            /\ response' = Resp("404")
       ELSE IF TaskDataValid(data, partial)
       THEN /\ tasks' = [tasks EXCEPT ![id] = SetFields(@, TaskValidatedData(data))]
            /\ response' = Resp("200")
       ELSE /\ UNCHANGED tasks
            /\ response' = BadRequest(TaskDataErrors(data, partial))
    /\ UNCHANGED <<now, sideVars, task_seq, categories, cat_seq, aiVars,
                   derivedVars, contextVars>>

\* DELETE /tasks/{id}/
TaskDestroy(user, id) ==
    /\ IF id \notin get_queryset(user)
       THEN /\ UNCHANGED <<tasks, comments>>
            /\ response' = Resp("404")
       ELSE /\ tasks' = [i \in DOMAIN tasks \ {id} |-> tasks[i]]
            /\ comments' = [c \in {j \in DOMAIN comments :
                                      comments[j].task # id} |->
                                comments[c]]
            /\ response' = Resp("204")
    /\ UNCHANGED <<now, insightVars, raceVars, task_seq, categories, cat_seq,
                   aiVars, derivedVars, contextVars>>

\* Task.mark_completed(self), applied to a row: the row save() writes, and
\* whether the call returned.
Task_mark_completed(row, n) ==
    IF ModelsHasTimezone
    THEN [saved |-> TRUE,
          row   |-> [row EXCEPT !.status = "completed", !.completed_at = Some(n)]]
    ELSE \* line 105 changed the instance, line 106 raised, save() did not run
         [saved |-> FALSE, row |-> row]

\* POST /tasks/{id}/mark_completed/
TaskMarkCompleted(user, id) ==
    /\ IF id \notin get_queryset(user)
       THEN /\ UNCHANGED tasks
            /\ response' = Resp("404")
       ELSE LET r == Task_mark_completed(tasks[id], now) IN
            /\ tasks' = [tasks EXCEPT ![id] = r.row]
            /\ response' = IF r.saved THEN Resp("200") ELSE Resp("500")
    /\ UNCHANGED <<now, sideVars, task_seq, categories, cat_seq, aiVars,
                   derivedVars, contextVars>>

\* Mutant: the bulk allow-list also admits priority_score.
allowed_fields_with_score ==
    {"status", "priority", "category", "deadline", "priority_score"}

\* TaskBulkUpdateSerializer.validate_updates: the fields a bulk update may set.
allowed_fields == {"status", "priority", "category", "deadline"}

\* The elements of a list.
Elems(seq) == {seq[i] : i \in 1..Len(seq)}

\* Mutant: validate_updates lets every field through.
BulkUpdateErrorsAnyField(task_ids, updates) ==
    {e \in {<<"task_ids", "empty">>} : task_ids = <<>>}
    \cup {e \in {<<"updates", "empty">>} : DOMAIN updates = {}}

\* TaskBulkUpdateSerializer.errors: an empty list or dict (allow_empty=False)
\* and the fields validate_updates refuses.
BulkUpdateErrors(task_ids, updates) ==
    {e \in {<<"task_ids", "empty">>} : task_ids = <<>>}
    \cup {e \in {<<"updates", "empty">>} : DOMAIN updates = {}}
    \cup {e \in {<<"updates", "invalid">>} : DOMAIN updates \ allowed_fields # {}}

\* Mutant: the listed tasks the user owns are updated although other listed
\* ids name no task of the user.
TaskBulkUpdatePartial(user, task_ids, updates) ==
    /\ IF BulkUpdateErrors(task_ids, updates) # {}
       THEN /\ UNCHANGED tasks
            /\ response' = BadRequest(BulkUpdateErrors(task_ids, updates))
       ELSE /\ tasks' = [i \in DOMAIN tasks |->
                            IF i \in Elems(task_ids) \cap get_queryset(user)
                            THEN SetFields(tasks[i], updates) ELSE tasks[i]]
            /\ response' = Resp("200")
    /\ UNCHANGED <<now, sideVars, task_seq, categories, cat_seq, aiVars,
                   derivedVars, contextVars>>

\* POST /tasks/bulk_update/
TaskBulkUpdate(user, task_ids, updates) ==
    /\ IF BulkUpdateErrors(task_ids, updates) # {}
       THEN /\ UNCHANGED tasks
            /\ response' = BadRequest(BulkUpdateErrors(task_ids, updates))
       ELSE IF Cardinality(get_queryset(user) \cap Elems(task_ids)) # Len(task_ids)
       THEN \* the view's own ownership check
            /\ UNCHANGED tasks
            /\ response' =
                BadRequest({<<"error", "Some tasks not found or access denied">>})
       ELSE IF /\ "category" \in DOMAIN updates
               /\ updates["category"] # None
               /\ updates["category"][1] \notin categories
       THEN \* the foreign key constraint fails: IntegrityError
            /\ UNCHANGED tasks
            /\ response' = Resp("500")
       ELSE /\ tasks' = [i \in DOMAIN tasks |->
                            IF i \in Elems(task_ids)
                            THEN SetFields(tasks[i], updates) ELSE tasks[i]]
            /\ response' = Resp("200")
    /\ UNCHANGED <<now, sideVars, task_seq, categories, cat_seq, aiVars,
                   derivedVars, contextVars>>

\* POST /tasks/{id}/ai_analysis/ with body {task_id: body_id}
TaskAIAnalysis(user, id, body_id) ==
    /\ response' = IF id \notin get_queryset(user) THEN Resp("404")
                   ELSE IF body_id \notin get_queryset(user)
                   THEN BadRequest({<<"task_id", "invalid">>})
                   ELSE Resp("200")
    /\ UNCHANGED <<now, sideVars, taskVars, aiVars, derivedVars, contextVars>>

\* POST /tasks/ai_prioritization/ with body {task_ids: task_ids}
TaskAIPrioritization(user, task_ids) ==
    /\ response' = IF \/ task_ids = <<>>
                      \/ Cardinality(get_queryset(user) \cap Elems(task_ids))
                            # Len(task_ids)
                   THEN BadRequest({<<"task_ids",
                                     IF task_ids = <<>> THEN "empty" ELSE "invalid">>})
                   ELSE Resp("200")
    /\ UNCHANGED <<now, sideVars, taskVars, aiVars, derivedVars, contextVars>>

\* POST /categories/ by any authenticated user
CategoryCreate(user) ==
    /\ cat_seq < MaxCategories
    /\ cat_seq' = cat_seq + 1
    /\ categories' = categories \cup {cat_seq + 1}
    /\ response' = Resp("201")
    /\ UNCHANGED <<now, sideVars, tasks, task_seq, aiVars, derivedVars, contextVars>>

\* DELETE /categories/{id}/ by any authenticated user (the queryset is
\* Category.objects.all()); Task.category is on_delete=SET_NULL.
CategoryDestroy(user, id) ==
    /\ IF id \notin categories
       THEN /\ UNCHANGED <<tasks, categories>>
            /\ response' = Resp("404")
       ELSE /\ categories' = categories \ {id}
            /\ tasks' = [i \in DOMAIN tasks |->
                            IF tasks[i].category = Some(id)
                            THEN [tasks[i] EXCEPT !.category = None]
                            ELSE tasks[i]]
            /\ response' = Resp("204")
    /\ UNCHANGED <<now, sideVars, task_seq, cat_seq, aiVars, derivedVars, contextVars>>

(***************************************************************************)
(* The request bodies the model sends.                                     *)
(***************************************************************************)
TitleAbc == <<" ", "a", "b", "c">>
TitleShort == <<"a", "b", " ">>

\* Bodies of POST and PUT.  Keys that are no field of the serializer
\* (priority_score, completed_at) are sent too.
TaskBodies ==
    << [title |-> TitleAbc],
       [title |-> TitleAbc, status |-> "in_progress",
        priority_score |-> Tenths(150), completed_at |-> Some(1)],
       [title |-> TitleShort],
       [title |-> TitleAbc, status |-> "completed", deadline |-> Some(1),
        category |-> Some(1)],
       [title |-> TitleAbc, status |-> "archived"],
       [status |-> "todo"] >>

\* Bodies of PATCH.
PatchBodies ==
    << [status |-> "todo"],
       [status |-> "archived"],
       [deadline |-> None],
       [deadline |-> Some(1)],
       [title |-> TitleShort],
       [status |-> "completed", priority_score |-> Tenths(150),
        completed_at |-> Some(1)] >>

\* The updates dict of a bulk update.
BulkUpdates ==
    << [status |-> "completed"],
       [status |-> "archived"],
       [status |-> "todo", deadline |-> Some(1)],
       [category |-> Some(1)],
       [status |-> "cancelled", notes |-> "n"],
       [status |-> "in_progress", priority_score |-> Tenths(150)],
       [status |-> "completed", completed_at |-> Some(1)],
       <<>> >>

\* The task_ids list of a bulk update or a prioritization: empty, one id, two
\* ids (the first id repeated included).
IdLists ==
    {<<>>} \cup {<<i>> : i \in TaskIds}
           \cup {<<p[1], p[2]>> : p \in {q \in TaskIds \X TaskIds : q[1] = 1}}

Create == \E u \in Users, b \in 1..Len(TaskBodies) : TaskCreate(u, TaskBodies[b])
Update == \E u \in Users, id \in TaskIds, b \in 1..Len(TaskBodies) :
                TaskUpdate(u, id, TaskBodies[b], FALSE)
PartialUpdate == \E u \in Users, id \in TaskIds, b \in 1..Len(PatchBodies) :
                TaskUpdate(u, id, PatchBodies[b], TRUE)
Destroy == \E u \in Users, id \in TaskIds : TaskDestroy(u, id)
MarkCompleted == \E u \in Users, id \in TaskIds : TaskMarkCompleted(u, id)
BulkUpdate == \E u \in Users, ids \in IdLists, b \in 1..Len(BulkUpdates) :
                TaskBulkUpdate(u, ids, BulkUpdates[b])
AIAnalysis == \E u \in Users, id \in TaskIds, body_id \in TaskIds :
                TaskAIAnalysis(u, id, body_id)
AIPrioritization == \E u \in Users, ids \in IdLists : TaskAIPrioritization(u, ids)
CreateCategory == \E u \in Users : CategoryCreate(u)
DestroyCategory == \E u \in Users, id \in CategoryIds : CategoryDestroy(u, id)

Init ==
    InitCommon /\ InitAIEmpty /\ InitTasksEmpty /\ InitContextEmpty /\ InitDerivedIdle

Next ==
    \/ Create
    \/ Update
    \/ PartialUpdate
    \/ Destroy
    \/ MarkCompleted
    \/ BulkUpdate
    \/ AIAnalysis
    \/ AIPrioritization
    \/ CreateCategory
    \/ DestroyCategory
    \/ Tick

Spec == Init /\ [][Next]_vars

(***************************************************************************)
(* The context API: ContextEntryViewSet with its serializers.  A content   *)
(* is a sequence of characters; a relevance score is kept in hundredths;   *)
(* an empty JSON dict or list is the empty function <<>>.                  *)
(***************************************************************************)
EntryIds == 1..MaxEntries

Hundredths(x) == x * 100

SOURCE_TYPES ==
    {"whatsapp", "email", "notes", "slack", "teams", "calendar", "manual", "other"}

ANALYSIS_TYPES == {"full", "tasks_only", "sentiment_only", "entities_only"}

\* Field defaults of a new ContextEntry row.
ContextEntryNew(user) ==
    [ user               |-> user,
      content            |-> <<>>,
      source_type        |-> "",
      timestamp          |-> None,
      processing_status  |-> "pending",
      processed_insights |-> <<>>,
      extracted_tasks    |-> <<>>,
      priority_indicators |-> <<>>,
      deadline_mentions  |-> <<>>,
      key_entities       |-> <<>>,
      sentiment_analysis |-> <<>>,
      categories         |-> <<>>,
      relevance_score    |-> Hundredths(0),
      last_processed_at  |-> None ]

\* ContextEntryViewSet.get_queryset: the primary keys of the user's entries.
entry_queryset(user) == {id \in DOMAIN entries : entries[id].user = user}

\* validate_content: the stripped content must not be empty.
validate_content(value) == ~(Strip(value) = <<>>)

\* Mutant: any timestamp is accepted.
validate_timestamp_any(value, n) == TRUE

\* validate_timestamp: the timestamp must not lie after now.
validate_timestamp(value, n) == ~(value > n)

\* ContextEntryCreateSerializer.Meta.fields, of which the stored row keeps
\* these (title, sender and recipients are plain values no handler reads).
ContextCreateFields == {"content", "source_type", "timestamp"}

\* Mutant: the update serializer also declares the analysis columns writable.
ContextUpdateFieldsWithAI ==
    {"content", "processed_insights", "extracted_tasks", "relevance_score",
     "processing_status"}

\* ContextEntryUpdateSerializer.Meta.fields, of which the stored row keeps
\* this one.
ContextUpdateFields == {"content"}

\* The error of the content field of a body: required unless PATCH, not
\* blank once the field has trimmed it, and accepted by validate_content.
ContentErrors(data, partial) ==
    {e \in {<<"content", "required">>} : "content" \notin DOMAIN data /\ ~partial}
    \cup {e \in {<<"content", "blank">>} :
            "content" \in DOMAIN data /\ Strip(data["content"]) = <<>>}
    \cup {e \in {<<"content", "invalid">>} :
            /\ "content" \in DOMAIN data
            /\ Strip(data["content"]) # <<>>
            /\ ~validate_content(Strip(data["content"]))}

\* ContextEntryCreateSerializer.errors
ContextCreateErrors(data, n) ==
    ContentErrors(data, FALSE)
    \cup {e \in {<<"source_type", "required">>} : "source_type" \notin DOMAIN data}
    \cup {e \in {<<"source_type", "invalid_choice">>} :
            "source_type" \in DOMAIN data /\ data["source_type"] \notin SOURCE_TYPES}
    \cup {e \in {<<"timestamp", "required">>} : "timestamp" \notin DOMAIN data}
    \cup {e \in {<<"timestamp", "invalid">>} :
            "timestamp" \in DOMAIN data /\ ~validate_timestamp(data["timestamp"], n)}

\* Mutant: the content is stored as it was sent.
ContextValidatedDataUntrimmed(data, fields) ==
    [k \in DOMAIN data \cap fields |->
        IF k = "timestamp" THEN Some(data[k]) ELSE data[k]]

\* serializer.validated_data: the declared fields only, the content stripped.
ContextValidatedData(data, fields) ==
    [k \in DOMAIN data \cap fields |->
        IF k = "content" THEN Strip(data[k])
        ELSE IF k = "timestamp" THEN Some(data[k])
        ELSE data[k]]

\* POST /context/entries/
ContextCreate(user, data) ==
    /\ entry_seq < MaxEntries
    /\ IF ContextCreateErrors(data, now) = {}
       THEN /\ entry_seq' = entry_seq + 1
            /\ entries' = [i \in DOMAIN entries \cup {entry_seq + 1} |->
                            IF i = entry_seq + 1
                            THEN SetFields(ContextEntryNew(user),
                                    ContextValidatedData(data, ContextCreateFields))
                            ELSE entries[i]]
            /\ response' = Resp("201")
       ELSE /\ UNCHANGED <<entries, entry_seq>>
            /\ response' = BadRequest(ContextCreateErrors(data, now))
    /\ UNCHANGED <<now, sideVars, taskVars, aiVars, derivedVars>>

\* PUT /context/entries/{id}/ (partial = FALSE) and PATCH (partial = TRUE)
ContextUpdate(user, id, data, partial) ==
    /\ IF id \notin entry_queryset(user)
       THEN /\ UNCHANGED entries
            /\ response' = Resp("404")
       ELSE IF ContentErrors(data, partial) = {}
       THEN /\ entries' = [entries EXCEPT ![id] =
                    SetFields(@, ContextValidatedData(data, ContextUpdateFields))]
            /\ response' = Resp("200")
       ELSE /\ UNCHANGED entries
            /\ response' = BadRequest(ContentErrors(data, partial))
    /\ UNCHANGED <<now, sideVars, entry_seq, taskVars, aiVars, derivedVars>>

\* DELETE /context/entries/{id}/
ContextDestroy(user, id) ==
    /\ IF id \notin entry_queryset(user)
       THEN /\ UNCHANGED <<entries, insights>>
            /\ response' = Resp("404")
       ELSE /\ entries' = [i \in DOMAIN entries \ {id} |-> entries[i]]
            /\ insights' = [i \in {j \in DOMAIN insights :
                                      insights[j].context_entry # id} |->
                                insights[i]]
            /\ response' = Resp("204")
    /\ UNCHANGED <<now, commentVars, raceVars, entry_seq, taskVars, aiVars,
                   derivedVars>>

\* Mutant: analyze updates the entry that the body names.
AnalyzedEntryOfBody(id, data) == data["context_entry_id"]

\* analyze: context_entry = self.get_object(), the entry of the URL.
AnalyzedEntry(id, data) == id

\* ContextAnalysisRequestSerializer.errors
AnalysisRequestErrors(user, data) ==
    {e \in {<<"context_entry_id", "required">>} :
            "context_entry_id" \notin DOMAIN data}
    \cup {e \in {<<"context_entry_id", "invalid">>} :
            /\ "context_entry_id" \in DOMAIN data
            /\ data["context_entry_id"] \notin entry_queryset(user)}
    \cup {e \in {<<"analysis_type", "invalid_choice">>} :
            /\ "analysis_type" \in DOMAIN data
            /\ data["analysis_type"] \notin ANALYSIS_TYPES}

\* analysis_result['insights'] and analysis_result['relevance_score'] of the
\* mock analysis.
AnalysisInsights ==
    [ extracted_tasks     |-> <<"Complete project presentation">>,
      key_entities        |-> <<"project", "presentation", "client">>,
      sentiment           |-> "neutral",
      priority_indicators |-> <<"deadline mentioned", "client meeting context">> ]

AnalysisRelevance == Hundredths(85)

\* POST /context/entries/{id}/analyze/
ContextAnalyze(user, id, data) ==
    /\ IF id \notin entry_queryset(user)
       THEN /\ UNCHANGED entries
            /\ response' = Resp("404")
       ELSE IF AnalysisRequestErrors(user, data) # {}
       THEN /\ UNCHANGED entries
            /\ response' = BadRequest(AnalysisRequestErrors(user, data))
       ELSE /\ entries' = [entries EXCEPT ![AnalyzedEntry(id, data)] =
                            [@ EXCEPT !.processing_status = "completed",
                                      !.relevance_score = AnalysisRelevance,
                                      !.processed_insights = AnalysisInsights,
                                      !.last_processed_at = Some(now)]]
            /\ response' = Ok(<<[context_entry_id |-> id,
                                 insights         |-> AnalysisInsights,
                                 relevance_score  |-> AnalysisRelevance]>>)
    /\ UNCHANGED <<now, sideVars, entry_seq, taskVars, aiVars, derivedVars>>

\* Meta.ordering = ['-timestamp', '-created_at']: row a is listed before row b
\* (a later primary key was created later).
EntryBefore(a, b) ==
    \/ entries[a].timestamp[1] > entries[b].timestamp[1]
    \/ entries[a].timestamp[1] = entries[b].timestamp[1] /\ a > b

\* The rows of a queryset in the order of Meta.ordering.
RECURSIVE Ordered(_)
Ordered(S) ==
    IF S = {} THEN <<>>
    ELSE LET first == CHOOSE a \in S : \A b \in S \ {a} : EntryBefore(a, b)
         IN  <<first>> \o Ordered(S \ {first})

\* Python's min(a, b)
Min(a, b) == IF b < a THEN b ELSE a

\* Mutant: the reported score is not capped.
ReportedRelevanceUncapped(score) == score + Hundredths(10)

\* bulk_analyze: min(entry.relevance_score + 10, 100)
ReportedRelevance(score) == Min(score + Hundredths(10), Hundredths(100))

\* BulkContextAnalysisSerializer.errors
BulkAnalysisErrors(user, ids) ==
    {e \in {<<"context_entry_ids", "empty">>} : ids = <<>>}
    \cup {e \in {<<"context_entry_ids", "invalid">>} :
            /\ ids # <<>>
            /\ Cardinality(entry_queryset(user) \cap Elems(ids)) # Len(ids)}

\* POST /context/entries/bulk_analyze/: reads the entries, writes nothing.
ContextBulkAnalyze(user, ids) ==
    /\ IF BulkAnalysisErrors(user, ids) # {}
       THEN response' = BadRequest(BulkAnalysisErrors(user, ids))
       ELSE LET rows == Ordered(entry_queryset(user) \cap Elems(ids)) IN
            response' = Ok([i \in 1..Len(rows) |->
                            [context_entry_id |-> rows[i],
                             relevance_score  |->
                                ReportedRelevance(entries[rows[i]].relevance_score)]])
    /\ UNCHANGED <<now, sideVars, contextVars, taskVars, aiVars, derivedVars>>

(***************************************************************************)
(* The request bodies the model sends to the context API.                  *)
(***************************************************************************)
ContentHi == <<" ", "h", "i">>
ContentOk == <<"o", "k", " ">>
ContentBlank == <<" ", " ">>

\* Bodies of POST.  Keys that are no field of the serializer are sent too.
ContextBodies ==
    << [content |-> ContentHi, source_type |-> "email", timestamp |-> 1],
       [content |-> ContentBlank, source_type |-> "email", timestamp |-> 1],
       [content |-> ContentHi, source_type |-> "fax", timestamp |-> 1],
       [content |-> ContentHi, source_type |-> "email", timestamp |-> MaxTime],
       [content |-> ContentHi, source_type |-> "email", timestamp |-> 1,
        processed_insights |-> AnalysisInsights, extracted_tasks |-> <<"t">>,
        relevance_score |-> Hundredths(99), processing_status |-> "completed"],
       [content |-> <<>>, source_type |-> "email", timestamp |-> 1] >>

\* Bodies of PUT and PATCH.
ContextUpdateBodies ==
    << [content |-> ContentOk],
       [content |-> ContentBlank],
       [content |-> ContentOk,
        processed_insights |-> [sentiment |-> "positive"],
        extracted_tasks |-> <<"t">>, relevance_score |-> Hundredths(99),
        processing_status |-> "failed", timestamp |-> MaxTime],
       [sender |-> "s", extracted_tasks |-> <<"t">>],
       [content |-> <<>>] >>

\* Bodies of analyze.
AnalyzeBodies ==
    << [context_entry_id |-> 1],
       [context_entry_id |-> 2],
       [analysis_type |-> "full"],
       [context_entry_id |-> 1, analysis_type |-> "summary"] >>

\* The context_entry_ids list of a bulk analysis.
EntryIdLists ==
    {<<>>} \cup {<<i>> : i \in EntryIds} \cup {<<1, j>> : j \in EntryIds}

CreateEntry ==
    \E u \in Users, b \in 1..Len(ContextBodies) : ContextCreate(u, ContextBodies[b])
UpdateEntry ==
    \E u \in Users, id \in EntryIds, b \in 1..Len(ContextUpdateBodies) :
        ContextUpdate(u, id, ContextUpdateBodies[b], FALSE)
PartialUpdateEntry ==
    \E u \in Users, id \in EntryIds, b \in 1..Len(ContextUpdateBodies) :
        ContextUpdate(u, id, ContextUpdateBodies[b], TRUE)
DestroyEntry == \E u \in Users, id \in EntryIds : ContextDestroy(u, id)
Analyze ==
    \E u \in Users, id \in EntryIds, b \in 1..Len(AnalyzeBodies) :
        ContextAnalyze(u, id, AnalyzeBodies[b])
BulkAnalyze == \E u \in Users, ids \in EntryIdLists : ContextBulkAnalyze(u, ids)

NextContext ==
    \/ CreateEntry
    \/ UpdateEntry
    \/ PartialUpdateEntry
    \/ DestroyEntry
    \/ Analyze
    \/ BulkAnalyze
    \/ Tick

SpecContext == Init /\ [][NextContext]_vars

(***************************************************************************)
(* bulk_analyze over stored entries of any relevance score.                *)
(***************************************************************************)
\* Stored relevance scores in hundredths, up to the top of the range.
StoredScores ==
    {Hundredths(0), Hundredths(50), Hundredths(85), Hundredths(90), 9001,
     Hundredths(95), Hundredths(100)}

\* An analysed row of the user with the score.
StoredEntry(user, score) ==
    [ContextEntryNew(user) EXCEPT !.content = Strip(ContentHi),
                                  !.source_type = "email",
                                  !.timestamp = Some(1),
                                  !.processing_status = "completed",
                                  !.processed_insights = AnalysisInsights,
                                  !.relevance_score = score,
                                  !.last_processed_at = Some(1)]

InitBulkAnalyze ==
    /\ InitCommon
    /\ InitAIEmpty
    /\ InitTasksEmpty
    /\ InitDerivedIdle
    /\ entry_seq = MaxEntries
    /\ entries \in [EntryIds ->
                        {StoredEntry(u, s) : u \in Users, s \in StoredScores}]

NextBulkAnalyze == BulkAnalyze

SpecBulkAnalyze == InitBulkAnalyze /\ [][NextBulkAnalyze]_vars

(***************************************************************************)
(* Both APIs side by side, with few bodies per operation: the requests of  *)
(* one user that name rows of the other, or rows that do not exist.        *)
(***************************************************************************)
\* GET /tasks/{id}/: the response carries the row.
TaskRetrieve(user, id) ==
    /\ response' = IF id \notin get_queryset(user) THEN Resp("404")
                   ELSE Ok(<<[id |-> id, user |-> tasks[id].assigned_to]>>)
    /\ UNCHANGED <<now, sideVars, taskVars, aiVars, derivedVars, contextVars>>

\* GET /context/entries/{id}/: the response carries the row.
ContextRetrieve(user, id) ==
    /\ response' = IF id \notin entry_queryset(user) THEN Resp("404")
                   ELSE Ok(<<[id |-> id, user |-> entries[id].user]>>)
    /\ UNCHANGED <<now, sideVars, taskVars, aiVars, derivedVars, contextVars>>

AccessTaskBodies == << [title |-> TitleAbc] >>

AccessPatchBodies == << [status |-> "todo"] >>

AccessBulkUpdates == << [status |-> "todo"] >>

AccessEntryBodies ==
    << [content |-> ContentHi, source_type |-> "email", timestamp |-> 1] >>

AccessCreate ==
    \E u \in Users, b \in 1..Len(AccessTaskBodies) :
        TaskCreate(u, AccessTaskBodies[b])
AccessRetrieve == \E u \in Users, id \in TaskIds : TaskRetrieve(u, id)
AccessUpdate ==
    \E u \in Users, id \in TaskIds, b \in 1..Len(AccessTaskBodies) :
        TaskUpdate(u, id, AccessTaskBodies[b], FALSE)
AccessPartialUpdate ==
    \E u \in Users, id \in TaskIds, b \in 1..Len(AccessPatchBodies) :
        TaskUpdate(u, id, AccessPatchBodies[b], TRUE)
AccessBulkUpdate ==
    \E u \in Users, ids \in IdLists, b \in 1..Len(AccessBulkUpdates) :
        TaskBulkUpdate(u, ids, AccessBulkUpdates[b])
AccessCreateEntry ==
    \E u \in Users, b \in 1..Len(AccessEntryBodies) :
        ContextCreate(u, AccessEntryBodies[b])
AccessRetrieveEntry == \E u \in Users, id \in EntryIds : ContextRetrieve(u, id)
AccessUpdateEntry ==
    \E u \in Users, id \in EntryIds, b \in 1..Len(AccessEntryBodies) :
        ContextUpdate(u, id, AccessEntryBodies[b], FALSE)
AccessPartialUpdateEntry ==
    \E u \in Users, id \in EntryIds, b \in 1..Len(AccessEntryBodies) :
        ContextUpdate(u, id, AccessEntryBodies[b], TRUE)

NextAccess ==
    \/ AccessCreate
    \/ AccessRetrieve
    \/ AccessUpdate
    \/ AccessPartialUpdate
    \/ Destroy
    \/ MarkCompleted
    \/ AccessBulkUpdate
    \/ AIAnalysis
    \/ AIPrioritization
    \/ AccessCreateEntry
    \/ AccessRetrieveEntry
    \/ AccessUpdateEntry
    \/ AccessPartialUpdateEntry
    \/ DestroyEntry
    \/ Analyze
    \/ BulkAnalyze

SpecAccess == Init /\ [][NextAccess]_vars

(***************************************************************************)
(* Task creation and the bulk update alone.                                *)
(***************************************************************************)
NextBulk ==
    \/ Create
    \/ BulkUpdate

SpecBulk == Init /\ [][NextBulk]_vars

\* The same with categories for the updates to name.
NextBulkCategory ==
    \/ Create
    \/ BulkUpdate
    \/ CreateCategory

SpecBulkCategory == Init /\ [][NextBulkCategory]_vars

(***************************************************************************)
(* AIModelPerformance.success_rate.  A float is kept as an exact fraction  *)
(* in lowest terms.                                                        *)
(***************************************************************************)
RECURSIVE GCD(_, _)
GCD(a, b) == IF b = 0 THEN a ELSE GCD(b, a % b)

\* The fraction n/d (d > 0, n >= 0) in lowest terms.
Fraction(n, d) ==
    LET g == GCD(n, d) IN [num |-> n \div g, den |-> d \div g]

\* Python's a / b on integers and q * k on a float and an integer.
TrueDiv(a, b) == Fraction(a, b)
Mul(q, k) == Fraction(q.num * k, q.den)

\* Mutant: the quotient is the integer quotient.
success_rate_floor_division(row) ==
    IF row.total_requests = 0
    THEN Fraction(0, 1)
    ELSE Fraction((row.successful_requests \div row.total_requests) * 100, 1)

\* AIModelPerformance.success_rate
success_rate(row) ==
    IF row.total_requests = 0
    THEN Fraction(0, 1)
    ELSE Mul(TrueDiv(row.successful_requests, row.total_requests), 100)

\* The request counters of the rows handed to success_rate.
PerformanceRows ==
    [total_requests : 0..MaxCount, successful_requests : 0..MaxCount]

ReadSuccessRate ==
    /\ inst # None
    /\ derived = None
    /\ derived' = Some(success_rate(inst[1]))
    /\ response' = Resp("ok")
    /\ UNCHANGED <<now, sideVars, inst, aiVars, taskVars, contextVars>>

InitPerformance ==
    /\ InitCommon
    /\ InitAIEmpty
    /\ InitTasksEmpty
    /\ InitContextEmpty
    /\ inst \in {Some(r) : r \in PerformanceRows}
    /\ derived = None

NextPerformance == ReadSuccessRate

SpecPerformance == InitPerformance /\ [][NextPerformance]_vars

(***************************************************************************)
(* The derived properties of ContextEntry: content_preview, urgency_level. *)
(***************************************************************************)
Alphabet ==
    << "a", "b", "c", "d", "e", "f", "g", "h", "i", "j", "k", "l", "m",
       "n", "o", "p", "q", "r", "s", "t", "u", "v", "w", "x", "y", "z" >>

\* A content of n characters, the alphabet over and over.
Content(n) == [i \in 1..n |-> Alphabet[((i - 1) % Len(Alphabet)) + 1]]

\* Python's s[:k]
Prefix(s, k) == SubSeq(s, 1, Min(k, Len(s)))

Ellipsis == <<".", ".", ".">>

\* Mutant: the content is cut from PreviewLength characters on.
content_preview_from_limit(entry) ==
    IF Len(entry.content) >= PreviewLength
    THEN Prefix(entry.content, PreviewLength) \o Ellipsis
    ELSE entry.content

\* ContextEntry.content_preview
content_preview(entry) ==
    IF Len(entry.content) > PreviewLength
    THEN Prefix(entry.content, PreviewLength) \o Ellipsis
    ELSE entry.content

\* Mutant: the thresholds are exclusive.
entry_urgency_level_exclusive(entry) ==
    IF entry.relevance_score > Hundredths(80) THEN "high"
    ELSE IF entry.relevance_score > Hundredths(50) THEN "medium"
    ELSE "low"

\* ContextEntry.urgency_level
entry_urgency_level(entry) ==
    IF entry.relevance_score >= Hundredths(80) THEN "high"
    ELSE IF entry.relevance_score >= Hundredths(50) THEN "medium"
    ELSE "low"

\* Relevance scores in hundredths, on both sides of every threshold.
RelevanceSamples ==
    {Hundredths(0), 4999, Hundredths(50), 7999, Hundredths(80), Hundredths(85),
     Hundredths(100)}

\* The entries handed to the derived properties.
ContextInstances ==
    [content : {Content(n) : n \in 0..MaxContentLen},
     relevance_score : RelevanceSamples]

\* A serializer reads both properties of the entry.
ReadContextDerived ==
    /\ inst # None
    /\ derived = None
    /\ derived' = Some([ content_preview |-> content_preview(inst[1]),
                         urgency_level   |-> entry_urgency_level(inst[1]) ])
    /\ response' = Resp("ok")
    /\ UNCHANGED <<now, sideVars, inst, aiVars, taskVars, contextVars>>

InitContextDerived ==
    /\ InitCommon
    /\ InitAIEmpty
    /\ InitTasksEmpty
    /\ InitContextEmpty
    /\ inst \in {Some(e) : e \in ContextInstances}
    /\ derived = None

NextContextDerived == ReadContextDerived

SpecContextDerived == InitContextDerived /\ [][NextContextDerived]_vars

(***************************************************************************)
(* Task creation and update with a range of titles.                        *)
(***************************************************************************)
TitleSamples ==
    << <<"a", "b", "c">>,
       TitleAbc,
       TitleShort,
       <<"a", " ", "b">>,
       <<"a", " ", " ", "b">>,
       <<" ", "a", " ", "b", " ">>,
       <<" ", " ", "a", " ">>,
       <<"a", "b">>,
       <<" ", " ", " ">>,
       <<>> >>

CreateTitled ==
    \E u \in Users, t \in 1..Len(TitleSamples) :
        TaskCreate(u, [title |-> TitleSamples[t]])
UpdateTitled ==
    \E u \in Users, id \in TaskIds, t \in 1..Len(TitleSamples) :
        TaskUpdate(u, id, [title |-> TitleSamples[t]], FALSE)
PartialUpdateTitled ==
    \E u \in Users, id \in TaskIds, t \in 1..Len(TitleSamples) :
        TaskUpdate(u, id, [title |-> TitleSamples[t]], TRUE)

NextTitle ==
    \/ CreateTitled
    \/ UpdateTitled
    \/ PartialUpdateTitled

SpecTitle == Init /\ [][NextTitle]_vars

(***************************************************************************)
(* The insights API (ContextInsightViewSet).  A stored insight keeps its   *)
(* context_entry, insight_type, confidence_score (in hundredths) and       *)
(* is_actionable; title, description and metadata are plain values no      *)
(* handler reads.  No code of the application creates a row of the table   *)
(* with its entry set, so the rows of an initial state stand for those the *)
(* analysis pipeline or the admin site has stored.                         *)
(***************************************************************************)
InsightIds == 1..MaxInsights

INSIGHT_TYPES ==
    {"task", "deadline", "priority", "contact", "meeting", "project", "other"}

\* ContextInsightViewSet.get_queryset: the insights of the user's entries.
insight_queryset(user) ==
    {i \in DOMAIN insights : insights[i].context_entry \in entry_queryset(user)}

\* ContextInsightSerializer.Meta.fields that a request may write, of which
\* the stored row keeps these.
InsightFields == {"insight_type", "confidence_score", "is_actionable"}

\* The fields of ContextInsightSerializer that a POST or PUT must carry.
InsightRequired == {"insight_type", "title", "description", "confidence_score"}

\* ContextInsightSerializer.errors: required fields unless PATCH and the
\* choice of insight_type.  The serializer declares no validate_ method and
\* the model field no validator, so any number is a valid confidence_score.
InsightErrors(data, partial) ==
    {<<k, "required">> : k \in {f \in InsightRequired : f \notin DOMAIN data /\ ~partial}}
    \cup {e \in {<<"insight_type", "invalid_choice">>} :
            "insight_type" \in DOMAIN data /\ data["insight_type"] \notin INSIGHT_TYPES}

\* serializer.validated_data: the declared fields only.
InsightValidatedData(data) == [k \in DOMAIN data \cap InsightFields |-> data[k]]

\* POST /context/insights/: the serializer has no context_entry field, so
\* the INSERT of a valid body violates NOT NULL and nothing is stored.
InsightCreate(user, data) ==
    /\ IF InsightErrors(data, FALSE) = {}
       THEN response' = Resp("500")
       ELSE response' = BadRequest(InsightErrors(data, FALSE))
    /\ UNCHANGED <<now, insights, commentVars, raceVars, taskVars, aiVars,
                   derivedVars, contextVars>>

\* PUT /context/insights/{id}/ (partial = FALSE) and PATCH (partial = TRUE)
InsightUpdate(user, id, data, partial) ==
    /\ IF id \notin insight_queryset(user)
       THEN /\ UNCHANGED insights
            /\ response' = Resp("404")
       ELSE IF InsightErrors(data, partial) = {}
       THEN /\ insights' = [insights EXCEPT ![id] =
                                SetFields(@, InsightValidatedData(data))]
            /\ response' = Resp("200")
       ELSE /\ UNCHANGED insights
            /\ response' = BadRequest(InsightErrors(data, partial))
    /\ UNCHANGED <<now, commentVars, raceVars, taskVars, aiVars, derivedVars,
                   contextVars>>

\* DELETE /context/insights/{id}/
InsightDestroy(user, id) ==
    /\ IF id \notin insight_queryset(user)
       THEN /\ UNCHANGED insights
            /\ response' = Resp("404")
       ELSE /\ insights' = [i \in DOMAIN insights \ {id} |-> insights[i]]
            /\ response' = Resp("204")
    /\ UNCHANGED <<now, commentVars, raceVars, taskVars, aiVars, derivedVars,
                   contextVars>>

\* GET /context/insights/high_confidence/: the user's insights whose
\* confidence_score is at least 80.
InsightHighConfidence(user) ==
    /\ response' = Ok({i \in insight_queryset(user) :
                        insights[i].confidence_score >= Hundredths(80)})
    /\ UNCHANGED <<now, sideVars, taskVars, aiVars, derivedVars, contextVars>>

\* Bodies of POST, PUT and PATCH.  context_entry is no field of the
\* serializer.
InsightBodies ==
    << [insight_type |-> "deadline", title |-> "t", description |-> "d",
        confidence_score |-> Hundredths(50)],
       [confidence_score |-> Hundredths(150)],
       [confidence_score |-> 0 - Hundredths(1)],
       [insight_type |-> "rumour", title |-> "t", description |-> "d",
        confidence_score |-> Hundredths(100)],
       [is_actionable |-> TRUE, context_entry |-> 2] >>

\* The confidence scores of the rows stored beforehand.
StoredConfidences == {Hundredths(0), Hundredths(80), Hundredths(100)}

\* A row stored beforehand for the entry.
StoredInsight(entry, score) ==
    [ context_entry    |-> entry,
      insight_type     |-> "task",
      confidence_score |-> score,
      is_actionable    |-> FALSE ]

CreateInsight ==
    \E u \in Users, b \in 1..Len(InsightBodies) : InsightCreate(u, InsightBodies[b])
UpdateInsight ==
    \E u \in Users, id \in InsightIds, b \in 1..Len(InsightBodies) :
        InsightUpdate(u, id, InsightBodies[b], FALSE)
PartialUpdateInsight ==
    \E u \in Users, id \in InsightIds, b \in 1..Len(InsightBodies) :
        InsightUpdate(u, id, InsightBodies[b], TRUE)
DestroyInsight == \E u \in Users, id \in InsightIds : InsightDestroy(u, id)
HighConfidence == \E u \in Users : InsightHighConfidence(u)

\* Each user owns one entry; up to MaxInsights insights with a confidence
\* score in range are stored for them.
InitInsight ==
    /\ now = 1
    /\ response = Resp("none")
    /\ InitAIEmpty
    /\ InitTasksEmpty
    /\ InitDerivedIdle
    /\ comments = <<>>
    /\ calls = <<>>
    /\ entry_seq = 2
    /\ entries = <<StoredEntry("alice", Hundredths(0)), StoredEntry("bob", Hundredths(0))>>
    /\ \E n \in 0..MaxInsights :
        insights \in [1..n -> {StoredInsight(e, s) : e \in 1..2, s \in StoredConfidences}]

NextInsight ==
    \/ CreateInsight
    \/ UpdateInsight
    \/ PartialUpdateInsight
    \/ DestroyInsight
    \/ HighConfidence
    \/ DestroyEntry

SpecInsight == InitInsight /\ [][NextInsight]_vars

(***************************************************************************)
(* The comments API (TaskCommentViewSet).  A stored comment keeps its      *)
(* task, author, content and is_ai_generated.  No code of the application  *)
(* creates a row with its task set, so the rows of an initial state stand  *)
(* for those stored by the admin site or the AI pipeline.                  *)
(***************************************************************************)
CommentIds == 1..MaxComments

\* TaskCommentViewSet.get_queryset: comments of the tasks assigned to the
\* user.
comment_queryset(user) ==
    {c \in DOMAIN comments : comments[c].task \in get_queryset(user)}

\* The fields of TaskCommentSerializer a request may write: Meta.fields
\* less the read-only id, author, author_name and created_at.
CommentFields == {"content", "is_ai_generated"}

\* TaskCommentSerializer.errors: content is required unless PATCH and not
\* blank once trimmed.
CommentErrors(data, partial) ==
    {e \in {<<"content", "required">>} : "content" \notin DOMAIN data /\ ~partial}
    \cup {e \in {<<"content", "blank">>} :
            "content" \in DOMAIN data /\ Strip(data["content"]) = <<>>}

\* serializer.validated_data: the writable fields only, the content trimmed.
CommentValidatedData(data) ==
    [k \in DOMAIN data \cap CommentFields |->
        IF k = "content" THEN Strip(data[k]) ELSE data[k]]

\* POST /comments/: perform_create passes the author, but the serializer
\* has no task field, so the INSERT of a valid body violates NOT NULL and
\* nothing is stored.
CommentCreate(user, data) ==
    /\ IF CommentErrors(data, FALSE) = {}
       THEN response' = Resp("500")
       ELSE response' = BadRequest(CommentErrors(data, FALSE))
    /\ UNCHANGED <<now, comments, insightVars, raceVars, taskVars, aiVars,
                   derivedVars, contextVars>>

\* PUT /comments/{id}/ (partial = FALSE) and PATCH (partial = TRUE)
CommentUpdate(user, id, data, partial) ==
    /\ IF id \notin comment_queryset(user)
       THEN /\ UNCHANGED comments
            /\ response' = Resp("404")
       ELSE IF CommentErrors(data, partial) = {}
       THEN /\ comments' = [comments EXCEPT ![id] =
                                SetFields(@, CommentValidatedData(data))]
            /\ response' = Resp("200")
       ELSE /\ UNCHANGED comments
            /\ response' = BadRequest(CommentErrors(data, partial))
    /\ UNCHANGED <<now, insightVars, raceVars, taskVars, aiVars, derivedVars,
                   contextVars>>

\* DELETE /comments/{id}/
CommentDestroy(user, id) ==
    /\ IF id \notin comment_queryset(user)
       THEN /\ UNCHANGED comments
            /\ response' = Resp("404")
       ELSE /\ comments' = [c \in DOMAIN comments \ {id} |-> comments[c]]
            /\ response' = Resp("204")
    /\ UNCHANGED <<now, insightVars, raceVars, taskVars, aiVars, derivedVars,
                   contextVars>>

\* Bodies of POST, PUT and PATCH.  author and task are no writable fields.
CommentBodies ==
    << [content |-> ContentOk],
       [content |-> ContentBlank],
       [is_ai_generated |-> TRUE, author |-> "bob", task |-> 2],
       [content |-> ContentHi, is_ai_generated |-> FALSE] >>

\* A row stored beforehand.
StoredComment(task, author, ai) ==
    [ task            |-> task,
      author          |-> author,
      content         |-> Strip(ContentHi),
      is_ai_generated |-> ai ]

\* A task of the user as POST /tasks/ stores it.
StoredTask(user) == [TaskNew(user) EXCEPT !.title = Strip(TitleAbc)]

CreateComment ==
    \E u \in Users, b \in 1..Len(CommentBodies) : CommentCreate(u, CommentBodies[b])
UpdateComment ==
    \E u \in Users, id \in CommentIds, b \in 1..Len(CommentBodies) :
        CommentUpdate(u, id, CommentBodies[b], FALSE)
PartialUpdateComment ==
    \E u \in Users, id \in CommentIds, b \in 1..Len(CommentBodies) :
        CommentUpdate(u, id, CommentBodies[b], TRUE)
DestroyComment == \E u \in Users, id \in CommentIds : CommentDestroy(u, id)

\* Each user has one task; up to MaxComments comments are stored on them.
InitComment ==
    /\ now = 1
    /\ response = Resp("none")
    /\ InitAIEmpty
    /\ InitContextEmpty
    /\ InitDerivedIdle
    /\ insights = <<>>
    /\ calls = <<>>
    /\ tasks = <<StoredTask("alice"), StoredTask("bob")>>
    /\ task_seq = 2
    /\ categories = {}
    /\ cat_seq = 0
    /\ \E n \in 0..MaxComments :
        comments \in [1..n -> {StoredComment(t, a, ai) :
                                t \in 1..2, a \in Users, ai \in BOOLEAN}]

NextComment ==
    \/ CreateComment
    \/ UpdateComment
    \/ PartialUpdateComment
    \/ DestroyComment
    \/ Destroy

SpecComment == InitComment /\ [][NextComment]_vars

(***************************************************************************)
(* The overdue list and the dashboard of the task API.                     *)
(***************************************************************************)
\* Task.Meta.ordering: -priority_score, then -created_at (a later row has
\* the larger primary key).
TaskBefore(a, b) ==
    \/ tasks[a].priority_score > tasks[b].priority_score
    \/ tasks[a].priority_score = tasks[b].priority_score /\ a > b

\* The rows of a task queryset in the order of Meta.ordering.
RECURSIVE OrderedTasks(_)
OrderedTasks(S) ==
    IF S = {} THEN <<>>
    ELSE LET first == CHOOSE a \in S : \A b \in S \ {a} : TaskBefore(a, b)
         IN  <<first>> \o OrderedTasks(S \ {first})

\* queryset.filter(deadline__lt=timezone.now(), status__in=['todo',
\* 'in_progress']): a NULL deadline matches no comparison.
overdue_filter(qs, n) ==
    {id \in qs : /\ tasks[id].deadline # None
                 /\ tasks[id].deadline[1] < n
                 /\ tasks[id].status \in {"todo", "in_progress"}}

\* A row as TaskListSerializer renders it: of its fields the key, the
\* status, the deadline and is_overdue.  A read-only field whose property
\* raises AttributeError is left out of the row, which the row records as
\* the value "AttributeError".
TaskListRow(id, n) ==
    [ id         |-> id,
      status     |-> tasks[id].status,
      deadline   |-> tasks[id].deadline,
      is_overdue |-> is_overdue(tasks[id], n) ]

\* GET /tasks/overdue/
TaskOverdue(user) ==
    /\ LET rows == OrderedTasks(overdue_filter(get_queryset(user), now)) IN
       response' = Ok([i \in 1..Len(rows) |-> TaskListRow(rows[i], now)])
    /\ UNCHANGED <<now, sideVars, taskVars, aiVars, derivedVars, contextVars>>

RECURSIVE SumScores(_)
SumScores(S) ==
    IF S = {} THEN 0
    ELSE LET id == CHOOSE i \in S : TRUE
         IN  tasks[id].priority_score + SumScores(S \ {id})

\* queryset.aggregate(Avg('priority_score'))['avg_score'] or 0, the scores
\* being kept in tenths.
avg_priority_score(qs) ==
    IF qs = {} THEN Fraction(0, 1)
    ELSE TrueDiv(SumScores(qs), Tenths(1) * Cardinality(qs))

\* GET /tasks/dashboard_stats/
TaskDashboardStats(user) ==
    /\ LET qs == get_queryset(user) IN
       response' = Ok(<<
        [ total_tasks         |-> Cardinality(qs),
          completed_tasks     |-> Cardinality({id \in qs : tasks[id].status = "completed"}),
          pending_tasks       |->
            Cardinality({id \in qs : tasks[id].status \in {"todo", "in_progress"}}),
          overdue_tasks       |-> Cardinality(overdue_filter(qs, now)),
          high_priority_tasks |->
            Cardinality({id \in qs : tasks[id].priority_score >= Tenths(70)}),
          avg_priority_score  |-> avg_priority_score(qs),
          tasks_by_status     |->
            [s \in STATUS_CHOICES |-> Cardinality({id \in qs : tasks[id].status = s})],
          tasks_by_priority   |->
            [p \in PRIORITY_CHOICES |->
                Cardinality({id \in qs : tasks[id].priority = p})] ] >>)
    /\ UNCHANGED <<now, sideVars, taskVars, aiVars, derivedVars, contextVars>>

OverdueList == \E u \in Users : TaskOverdue(u)
DashboardStats == \E u \in Users : TaskDashboardStats(u)

NextOverdue ==
    \/ Create
    \/ BulkUpdate
    \/ OverdueList
    \/ DashboardStats
    \/ Tick

SpecOverdue == Init /\ [][NextOverdue]_vars

(***************************************************************************)
(* mark_completed and mark_failed called concurrently on one AIRequest.    *)
(* Each caller loads its own instance of the stored row, then runs the     *)
(* method on it; the method's save() writes every field of the instance.   *)
(* The method body touches the instance only, so it is one step.           *)
(***************************************************************************)
RaceId == 1

\* The body of mark_completed on an instance: lines 84-85, then line 86,
\* which raises unless models.timezone exists, then lines 87-88.
mark_completed_on(o, rd, pt, n) ==
    IF ModelsHasTimezone
    THEN [o EXCEPT !.status = "completed",
                   !.response_data = Some(rd),
                   !.completed_at = Some(n),
                   !.processing_time = IF Truthy(pt) THEN pt ELSE @]
    ELSE [o EXCEPT !.status = "completed", !.response_data = Some(rd)]

\* The body of mark_failed on an instance: lines 93-94, then line 95.
mark_failed_on(o, msg, n) ==
    IF ModelsHasTimezone
    THEN [o EXCEPT !.status = "failed",
                   !.error_message = msg,
                   !.completed_at = Some(n)]
    ELSE [o EXCEPT !.status = "failed", !.error_message = msg]

\* A caller gets its instance: AIRequest.objects.get(pk=...)
LoadForMarkCompleted(rd, pt) ==
    /\ calls.mark_completed.pc = "idle"
    /\ calls' = [calls EXCEPT !.mark_completed =
                    [pc |-> "loaded", obj |-> Some(ai_db[RaceId]),
                     response_data |-> rd, processing_time |-> pt]]
    /\ UNCHANGED <<now, response, insightVars, commentVars, aiVars, taskVars,
                   derivedVars, contextVars>>

LoadForMarkFailed(msg) ==
    /\ calls.mark_failed.pc = "idle"
    /\ calls' = [calls EXCEPT !.mark_failed =
                    [pc |-> "loaded", obj |-> Some(ai_db[RaceId]),
                     error_message |-> msg]]
    /\ UNCHANGED <<now, response, insightVars, commentVars, aiVars, taskVars,
                   derivedVars, contextVars>>

\* The caller runs mark_completed on its instance; save() (line 89) writes
\* the whole instance over the stored row if the body gets there.
RunMarkCompleted ==
    LET c == calls.mark_completed
        o == mark_completed_on(c.obj[1], c.response_data, c.processing_time, now)
    IN  /\ c.pc = "loaded"
        /\ calls' = [calls EXCEPT !.mark_completed.obj = Some(o),
                                  !.mark_completed.pc =
                                    IF ModelsHasTimezone THEN "saved" ELSE "raised"]
        /\ ai_db' = IF ModelsHasTimezone THEN [ai_db EXCEPT ![RaceId] = o] ELSE ai_db
        /\ response' = IF ModelsHasTimezone THEN Resp("ok") ELSE Resp("AttributeError")
        /\ UNCHANGED <<now, insightVars, commentVars, ai_obj, ai_perf, taskVars,
                       derivedVars, contextVars>>

\* The caller runs mark_failed on its instance; save() is line 96.
RunMarkFailed ==
    LET c == calls.mark_failed
        o == mark_failed_on(c.obj[1], c.error_message, now)
    IN  /\ c.pc = "loaded"
        /\ calls' = [calls EXCEPT !.mark_failed.obj = Some(o),
                                  !.mark_failed.pc =
                                    IF ModelsHasTimezone THEN "saved" ELSE "raised"]
        /\ ai_db' = IF ModelsHasTimezone THEN [ai_db EXCEPT ![RaceId] = o] ELSE ai_db
        /\ response' = IF ModelsHasTimezone THEN Resp("ok") ELSE Resp("AttributeError")
        /\ UNCHANGED <<now, insightVars, commentVars, ai_obj, ai_perf, taskVars,
                       derivedVars, contextVars>>

LoadCompleted == \E rd \in ResponseData, pt \in ProcessingTimes : LoadForMarkCompleted(rd, pt)
LoadFailed == \E msg \in ErrorMessages : LoadForMarkFailed(msg)

\* One pending request is stored; neither caller has loaded it yet.
InitRace ==
    /\ now = 1
    /\ response = Resp("none")
    /\ InitTasksEmpty
    /\ InitContextEmpty
    /\ InitDerivedIdle
    /\ insights = <<>>
    /\ comments = <<>>
    /\ \E rt \in REQUEST_TYPES :
        /\ ai_db = <<AIRequestNew(rt)>>
        /\ ai_obj = <<AIRequestNew(rt)>>
    /\ ai_perf = {}
    /\ calls = [mark_completed |-> [pc |-> "idle", obj |-> None,
                                    response_data |-> "", processing_time |-> None],
                mark_failed    |-> [pc |-> "idle", obj |-> None,
                                    error_message |-> ""]]

NextRace ==
    \/ LoadCompleted
    \/ LoadFailed
    \/ RunMarkCompleted
    \/ RunMarkFailed

SpecRace == InitRace /\ [][NextRace]_vars

(***************************************************************************)
(* Claims on the AIRequest lifecycle (SpecAI).                             *)
(***************************************************************************)
ReqIds == 1..MaxRequests

\* C1: for a request in status pending, mark_completed(response_data) leaves the
\* request with status completed, completed_at set to the current time and
\* response_data equal to the value passed in.
C1_MarkCompletedFromPending ==
    [][\A id \in ReqIds, rd \in ResponseData, pt \in ProcessingTimes :
         (/\ id \in DOMAIN ai_obj
          /\ ai_obj[id].status = "pending"
          /\ AIRequest_mark_completed(id, rd, pt))
         => /\ ai_obj'[id].status = "completed"
            /\ ai_obj'[id].completed_at = Some(now)
            /\ ai_obj'[id].response_data = Some(rd)]_vars

\* C2: once a request has reached a terminal status (completed, failed, timeout),
\* no later mark_completed or mark_failed call changes its status, response_data,
\* error_message or completed_at.
C2_TerminalIsFinal ==
    [][\A id \in ReqIds :
         (/\ id \in DOMAIN ai_obj
          /\ ai_obj[id].status \in AI_TERMINAL
          /\ \/ \E rd \in ResponseData, pt \in ProcessingTimes :
                    AIRequest_mark_completed(id, rd, pt)
             \/ \E msg \in ErrorMessages : AIRequest_mark_failed(id, msg))
         => /\ ai_obj'[id].status = ai_obj[id].status
            /\ ai_obj'[id].response_data = ai_obj[id].response_data
            /\ ai_obj'[id].error_message = ai_obj[id].error_message
            /\ ai_obj'[id].completed_at = ai_obj[id].completed_at]_vars

\* C3: mark_failed(error_message) sets status to failed, stores error_message and
\* sets completed_at, and leaves retry_count unchanged; retry_count is 0 at
\* creation and neither mark_completed nor mark_failed changes it.
C3_MarkFailedEffect ==
    [][/\ \A id \in ReqIds, msg \in ErrorMessages :
            AIRequest_mark_failed(id, msg)
            => /\ ai_obj'[id].status = "failed"
               /\ ai_obj'[id].error_message = msg
               /\ ai_obj'[id].completed_at = Some(now)
               /\ ai_obj'[id].retry_count = ai_obj[id].retry_count
       /\ \A id \in DOMAIN ai_obj' :
            ai_obj'[id].retry_count = IF id \in DOMAIN ai_obj
                                      THEN ai_obj[id].retry_count ELSE 0]_vars

\* C4: after each terminal transition (mark_completed or mark_failed) the
\* AIModelPerformance row of (provider, model_name, request_type, completion date)
\* exists, its total_requests is one higher, exactly one of successful_requests
\* (completion) and failed_requests (failure) is one higher, and total_requests =
\* successful_requests + failed_requests.
C4_PerformanceRollup ==
    [][\A id \in ReqIds :
         LET key == RequestPerfKey(ai_obj[id], now)
             done == \E rd \in ResponseData, pt \in ProcessingTimes :
                        AIRequest_mark_completed(id, rd, pt)
             fail == \E msg \in ErrorMessages : AIRequest_mark_failed(id, msg)
         IN (id \in DOMAIN ai_obj /\ (done \/ fail))
            => /\ PerfRows(ai_perf', key) # {}
               /\ PerfCount(ai_perf', key, "total_requests")
                    = PerfCount(ai_perf, key, "total_requests") + 1
               /\ PerfCount(ai_perf', key, "successful_requests")
                    = PerfCount(ai_perf, key, "successful_requests")
                        + (IF done THEN 1 ELSE 0)
               /\ PerfCount(ai_perf', key, "failed_requests")
                    = PerfCount(ai_perf, key, "failed_requests")
                        + (IF done THEN 0 ELSE 1)
               /\ PerfCount(ai_perf', key, "total_requests")
                    = PerfCount(ai_perf', key, "successful_requests")
                        + PerfCount(ai_perf', key, "failed_requests")]_vars

\* C5: in every state reachable by creating a request and calling mark_completed
\* and mark_failed in any order, response_data is present only if the status is
\* completed.
C5_ResponseOnlyWhenCompleted ==
    \A id \in DOMAIN ai_obj :
        ai_obj[id].response_data # None => ai_obj[id].status = "completed"

(***************************************************************************)
(* Claims on the derived-status properties (SpecDerived).                  *)
(***************************************************************************)
Overdue(t, n) ==
    t.deadline # None /\ t.deadline[1] < n /\ t.status \notin {"completed", "cancelled"}

\* C6: is_overdue is true if and only if the deadline is set, deadline < now and
\* the status is neither completed nor cancelled; a task with no deadline is
\* never overdue.
C6_IsOverdueIff ==
    derived # None => derived[1].is_overdue = PyBool(Overdue(inst[1], now))

\* C7: urgency_level is "overdue" whenever the task is overdue, whatever the
\* priority_score; otherwise "critical" for a score >= 80, "high" for 60 <= score
\* < 80, "medium" for 40 <= score < 60 and "low" below 40.
C7_UrgencyLevel ==
    derived # None =>
        derived[1].urgency_level =
            IF Overdue(inst[1], now) THEN "overdue"
            ELSE IF inst[1].priority_score >= 800 THEN "critical"
            ELSE IF inst[1].priority_score >= 600 THEN "high"
            ELSE IF inst[1].priority_score >= 400 THEN "medium"
            ELSE "low"

(***************************************************************************)
(* Claims on the task API (Spec).                                          *)
(***************************************************************************)

\* C8: the mark-completed operation on a task in any status leaves the task with
\* status completed and completed_at set to the current time, and changes no
\* other task.
C8_MarkCompletedTask ==
    [][\A u \in Users, id \in TaskIds :
         (id \in get_queryset(u) /\ TaskMarkCompleted(u, id))
         => /\ tasks'[id].status = "completed"
            /\ tasks'[id].completed_at = Some(now)
            /\ \A j \in DOMAIN tasks \ {id} : tasks'[j] = tasks[j]]_vars

\* completed_at of every task is what it was, and None on a new task.
CompletedAtKept ==
    \A id \in DOMAIN tasks' :
        tasks'[id].completed_at =
            IF id \in DOMAIN tasks THEN tasks[id].completed_at ELSE None

\* C9: a task's completed_at is set only by the mark-completed operation: every
\* other step (create, update, partial update, bulk update, also one that sets
\* status to completed or moves a completed task to another status) leaves
\* completed_at of every task unchanged, and a new task has none.
C9_CompletedAtOnlyByMarkCompleted ==
    [][CompletedAtKept \/ MarkCompleted]_vars

\* A task whose status a create, update or bulk update set to completed, still
\* without completed_at.
C9_Witness ==
    \E id \in DOMAIN tasks :
        tasks[id].status = "completed" /\ tasks[id].completed_at = None

\* C10: after any sequence of task operations every stored task's priority_score
\* lies in [0,100].
C10_PriorityScoreInRange ==
    \A id \in DOMAIN tasks :
        /\ tasks[id].priority_score >= Tenths(0)
        /\ tasks[id].priority_score <= Tenths(100)

\* A task stored by the request whose body carried priority_score = 150 (the only
\* body that sets status in_progress): the score is still the default.
C10_Witness ==
    \E id \in DOMAIN tasks :
        tasks[id].status = "in_progress" /\ tasks[id].priority_score = Tenths(50)

(***************************************************************************)
(* Claims on the bulk update, tenant isolation and the answers to requests *)
(* that name another user's rows.                                          *)
(***************************************************************************)
\* C11: a bulk task update whose updates name any field outside status,
\* priority, category and deadline is rejected as a whole: the response is an
\* error and no field of any task changes, the allowed fields that were sent
\* along included.
C11_BulkUpdateRejectsOtherFields ==
    [][\A u \in Users, ids \in IdLists, b \in 1..Len(BulkUpdates) :
            ( /\ DOMAIN BulkUpdates[b]
                    \ {"status", "priority", "category", "deadline"} # {}
              /\ TaskBulkUpdate(u, ids, BulkUpdates[b]) )
            => /\ response'.status = "400"
               /\ tasks' = tasks]_vars

\* A bulk update was refused for its fields while the requester has a task
\* whose status every such body of the model would have changed.
C11_Witness ==
    /\ <<"updates", "invalid">> \in response.errors
    /\ \E id \in DOMAIN tasks : tasks[id].status = "todo"

\* The requests of the task API that user a sends.
RequestBy(a) ==
    \/ \E b \in 1..Len(TaskBodies) : TaskCreate(a, TaskBodies[b])
    \/ \E id \in TaskIds, b \in 1..Len(TaskBodies) :
            TaskUpdate(a, id, TaskBodies[b], FALSE)
    \/ \E id \in TaskIds, b \in 1..Len(PatchBodies) :
            TaskUpdate(a, id, PatchBodies[b], TRUE)
    \/ \E id \in TaskIds : TaskDestroy(a, id) \/ TaskMarkCompleted(a, id)
    \/ \E ids \in IdLists, b \in 1..Len(BulkUpdates) :
            TaskBulkUpdate(a, ids, BulkUpdates[b])
    \/ \E id \in TaskIds, body_id \in TaskIds : TaskAIAnalysis(a, id, body_id)
    \/ \E ids \in IdLists : TaskAIPrioritization(a, ids)
    \/ CategoryCreate(a)
    \/ \E id \in CategoryIds : CategoryDestroy(a, id)

\* Every task and context entry of the users other than a is as it was.
OthersRowsKept(a) ==
    /\ \A id \in DOMAIN tasks :
            tasks[id].assigned_to # a
                => id \in DOMAIN tasks' /\ tasks'[id] = tasks[id]
    /\ \A id \in DOMAIN entries :
            entries[id].user # a
                => id \in DOMAIN entries' /\ entries'[id] = entries[id]

\* C12: strict tenant isolation: no request authenticated as user a changes any
\* field of a Task or ContextEntry owned by another user, operations on the
\* shared Category records included.
C12_TenantIsolation ==
    [][\A a \in Users : OthersRowsKept(a) \/ ~RequestBy(a)]_vars

\* Row f exists and belongs to a user other than u.
ForeignTask(u, f) == f \in DOMAIN tasks /\ tasks[f].assigned_to # u
ForeignEntry(u, f) == f \in DOMAIN entries /\ entries[f].user # u

\* The id list with n in the place of f.
Renamed(ids, f, n) == [i \in 1..Len(ids) |-> IF ids[i] = f THEN n ELSE ids[i]]

\* Whatever a task request of u that names f does in this step, the same
\* request naming n does too: same response, same next state.
TaskRequestsAlike(u, f, n) ==
    /\ TaskRetrieve(u, f) => TaskRetrieve(u, n)
    /\ \A b \in 1..Len(AccessTaskBodies) :
            TaskUpdate(u, f, AccessTaskBodies[b], FALSE)
                => TaskUpdate(u, n, AccessTaskBodies[b], FALSE)
    /\ \A b \in 1..Len(AccessPatchBodies) :
            TaskUpdate(u, f, AccessPatchBodies[b], TRUE)
                => TaskUpdate(u, n, AccessPatchBodies[b], TRUE)
    /\ TaskDestroy(u, f) => TaskDestroy(u, n)
    /\ TaskMarkCompleted(u, f) => TaskMarkCompleted(u, n)
    /\ \A ids \in IdLists, b \in 1..Len(AccessBulkUpdates) :
            f \in Elems(ids) /\ TaskBulkUpdate(u, ids, AccessBulkUpdates[b])
                => TaskBulkUpdate(u, Renamed(ids, f, n), AccessBulkUpdates[b])
    /\ \A id \in TaskIds :
            /\ TaskAIAnalysis(u, f, id) => TaskAIAnalysis(u, n, id)
            /\ TaskAIAnalysis(u, id, f) => TaskAIAnalysis(u, id, n)
    /\ \A ids \in IdLists :
            f \in Elems(ids) /\ TaskAIPrioritization(u, ids)
                => TaskAIPrioritization(u, Renamed(ids, f, n))

\* The same for the requests on context entries.
EntryRequestsAlike(u, f, n) ==
    /\ ContextRetrieve(u, f) => ContextRetrieve(u, n)
    /\ \A b \in 1..Len(AccessEntryBodies), partial \in BOOLEAN :
            ContextUpdate(u, f, AccessEntryBodies[b], partial)
                => ContextUpdate(u, n, AccessEntryBodies[b], partial)
    /\ ContextDestroy(u, f) => ContextDestroy(u, n)
    /\ \A b \in 1..Len(AnalyzeBodies) :
            ContextAnalyze(u, f, AnalyzeBodies[b])
                => ContextAnalyze(u, n, AnalyzeBodies[b])
    /\ \A id \in EntryIds :
            ContextAnalyze(u, id, [context_entry_id |-> f])
                => ContextAnalyze(u, id, [context_entry_id |-> n])
    /\ \A ids \in EntryIdLists :
            f \in Elems(ids) /\ ContextBulkAnalyze(u, ids)
                => ContextBulkAnalyze(u, Renamed(ids, f, n))

\* C13: a request that names a task or context entry of another user gets the
\* same response, and leaves the same unchanged state, as the same request
\* naming an id that does not exist, for retrieve, update, delete,
\* mark-completed, bulk update and the analysis operations.
C13_ForeignAsAbsent ==
    [][ /\ \A u \in Users, f \in TaskIds, n \in TaskIds \ DOMAIN tasks :
                ForeignTask(u, f) => TaskRequestsAlike(u, f, n)
        /\ \A u \in Users, f \in EntryIds, n \in EntryIds \ DOMAIN entries :
                ForeignEntry(u, f) => EntryRequestsAlike(u, f, n) ]_vars

\* A request was answered 404 while a user faces both a foreign and an absent
\* task id, and a foreign and an absent context entry id.
C13_Witness ==
    /\ response = Resp("404")
    /\ \E u \in Users :
        /\ \E f \in TaskIds : ForeignTask(u, f)
        /\ TaskIds \ DOMAIN tasks # {}
        /\ \E f \in EntryIds : ForeignEntry(u, f)
        /\ EntryIds \ DOMAIN entries # {}

(***************************************************************************)
(* Claims on the derived values of AIModelPerformance and ContextEntry.    *)
(***************************************************************************)
\* C14: success_rate is 0.0 when total_requests is 0 and otherwise
\* successful_requests / total_requests * 100; total 10 with 7 successful
\* gives 70.0.
C14_SuccessRate ==
    derived # None =>
        LET row == inst[1]
            rate == derived[1]
        IN  /\ row.total_requests = 0 => rate = [num |-> 0, den |-> 1]
            /\ row.total_requests # 0 =>
                    /\ rate.den > 0
                    /\ rate.num * row.total_requests
                            = row.successful_requests * 100 * rate.den
            /\ row.total_requests = 10 /\ row.successful_requests = 7
                    => rate = [num |-> 70, den |-> 1]

\* success_rate has been read for 7 successes in 10 requests.
C14_Witness ==
    /\ inst = Some([total_requests |-> 10, successful_requests |-> 7])
    /\ derived = Some([num |-> 70, den |-> 1])

\* C15: content_preview returns the content unchanged when it has at most 100
\* characters, and otherwise its first 100 characters followed by the
\* 3-character ellipsis, 103 characters in all.
C15_ContentPreview ==
    derived # None =>
        LET content == inst[1].content
            preview == derived[1].content_preview
        IN  /\ Len(content) <= 100 => preview = content
            /\ Len(content) > 100 =>
                    /\ Len(preview) = 103
                    /\ \A i \in 1..100 : preview[i] = content[i]
                    /\ \A i \in 101..103 : preview[i] = "."

\* The preview of a content of more than 100 characters has been read.
C15_Witness ==
    /\ derived # None
    /\ Len(inst[1].content) = 101
    /\ Len(derived[1].content_preview) = 103

\* C16: urgency_level of a context entry is "high" for relevance_score >= 80,
\* "medium" for 50 <= relevance_score < 80 and "low" below 50.
C16_EntryUrgencyLevel ==
    derived # None =>
        LET score == inst[1].relevance_score
            level == derived[1].urgency_level
        IN  /\ score >= 8000 => level = "high"
            /\ score >= 5000 /\ score < 8000 => level = "medium"
            /\ score < 5000 => level = "low"

\* The level of an entry with score 80 has been read as high.
C16_Witness ==
    /\ derived # None
    /\ inst[1].relevance_score = 8000
    /\ derived[1].urgency_level = "high"

(***************************************************************************)
(* Claims on the analysis of context entries.                              *)
(***************************************************************************)
\* C17: a successful analyze request on an owned entry sets that entry's
\* processing_status to completed and overwrites its processed_insights and
\* relevance_score with the analysis result, whatever they were, and changes
\* no other entry, also when the body names another owned entry.
C17_AnalyzeEffect ==
    [][\A u \in Users, id \in EntryIds, b \in 1..Len(AnalyzeBodies) :
            ContextAnalyze(u, id, AnalyzeBodies[b]) /\ response'.status = "200"
            => /\ DOMAIN entries' = DOMAIN entries
               /\ entries'[id].processing_status = "completed"
               /\ entries'[id].processed_insights = response'.results[1].insights
               /\ entries'[id].relevance_score
                        = response'.results[1].relevance_score
               /\ entries'[id].relevance_score = 8500
               /\ \A o \in DOMAIN entries \ {id} : entries'[o] = entries[o]]_vars

\* Entry 1 has been analysed while its owner has a second entry that is
\* still pending.
C17_Witness ==
    /\ response.status = "200"
    /\ Len(response.results) = 1
    /\ "insights" \in DOMAIN response.results[1]
    /\ response.results[1].context_entry_id = 1
    /\ DOMAIN entries = {1, 2}
    /\ entries[1].user = entries[2].user
    /\ entries[1].processing_status = "completed"
    /\ entries[2].processing_status = "pending"

\* Every entry of the next state has each AI-derived field as it was, or
\* empty if the entry is new.
AIFieldsKept ==
    \A id \in DOMAIN entries' :
        \A f \in {"processed_insights", "extracted_tasks", "priority_indicators",
                  "deadline_mentions", "key_entities", "sentiment_analysis",
                  "categories"} :
            entries'[id][f] = IF id \in DOMAIN entries THEN entries[id][f] ELSE <<>>

\* C18: create, update, partial update and bulk_analyze leave every AI-derived
\* field of every context entry at its previous value, empty on a new entry.
C18_AIFieldsOnlyByAnalyze ==
    [][AIFieldsKept
        \/ ~(CreateEntry \/ UpdateEntry \/ PartialUpdateEntry \/ BulkAnalyze)]_vars

\* An update has succeeded and an analysed entry has the updated content.
C18_Witness ==
    /\ response = Resp("200")
    /\ \E id \in DOMAIN entries :
        /\ entries[id].processed_insights # <<>>
        /\ entries[id].content = <<"o", "k">>

\* C19: bulk_analyze reports for every requested entry a relevance_score of
\* min(stored score + 10, 100), which never exceeds 100.
C19_BulkAnalyzeScore ==
    [][\A u \in Users, ids \in EntryIdLists :
            ContextBulkAnalyze(u, ids) /\ response'.status = "200"
            => /\ Len(response'.results) = Len(ids)
               /\ \A id \in Elems(ids) :
                    \E i \in 1..Len(response'.results) :
                        LET r == response'.results[i]
                            stored == entries[id].relevance_score
                        IN  /\ r.context_entry_id = id
                            /\ r.relevance_score =
                                 IF stored + 1000 < 10000 THEN stored + 1000
                                                          ELSE 10000
                            /\ r.relevance_score <= 10000]_vars

\* A stored score of 95 has been reported as 100.
C19_Witness ==
    /\ response.status = "200"
    /\ \E i \in 1..Len(response.results) :
        /\ entries[response.results[i].context_entry_id].relevance_score = 9500
        /\ response.results[i].relevance_score = 10000

(***************************************************************************)
(* Claims on the title of a task.                                          *)
(***************************************************************************)
\* The number of characters of a title that are not whitespace.
NonWhitespace(t) == Cardinality({i \in 1..Len(t) : t[i] # " "})

\* The length of a title from its first to its last non-whitespace character.
TrimmedLength(t) ==
    LET at == {i \in 1..Len(t) : t[i] # " "}
    IN  IF at = {} THEN 0
        ELSE (CHOOSE i \in at : \A j \in at : j <= i)
                - (CHOOSE i \in at : \A j \in at : i <= j) + 1

\* The step is a create or an update of user u with title t.
SendsTitle(u, t) ==
    \/ TaskCreate(u, [title |-> t])
    \/ \E id \in TaskIds, partial \in BOOLEAN :
            TaskUpdate(u, id, [title |-> t], partial)

\* The request of the step was refused and no task was created or changed.
Refused == response'.status \notin {"200", "201"} /\ tasks' = tasks

\* C20: a task create or update is accepted only if its title contains at
\* least 3 non-whitespace characters; with fewer it is rejected and no task is
\* created or changed.
C20_TitleNonWhitespace ==
    [][\A u \in Users, t \in 1..Len(TitleSamples) :
            SendsTitle(u, TitleSamples[t]) /\ NonWhitespace(TitleSamples[t]) < 3
                => Refused]_vars

\* C20 as the code has it: a task create or update is accepted only if its
\* title, without its leading and trailing whitespace, has at least 3
\* characters, whitespace inside it counted; otherwise it is rejected and no
\* task is created or changed.
C20_TitleTrimmedLength ==
    [][\A u \in Users, t \in 1..Len(TitleSamples) :
            SendsTitle(u, TitleSamples[t]) /\ TrimmedLength(TitleSamples[t]) < 3
                => Refused]_vars

\* A title of two letters around a space has been stored, and a title that
\* is too short once trimmed has been refused.
C20_Witness ==
    /\ \E id \in DOMAIN tasks : tasks[id].title = <<"a", " ", "b">>
    /\ <<"title", "invalid">> \in response.errors

(***************************************************************************)
(* Claims on the content and timestamp of context entries                  *)
(***************************************************************************)

\* A body whose content is empty or made of whitespace only.
BlankContent(data) == "content" \in DOMAIN data /\ Strip(data["content"]) = <<>>

\* The request was answered 400 and the entry table is as it was.
EntryRefused == response'.status = "400" /\ entries' = entries /\ entry_seq' = entry_seq

\* The content has at least one character and neither starts nor ends with
\* whitespace.
Trimmed(c) == c # <<>> /\ c[1] # " " /\ c[Len(c)] # " "

\* C21: after every step of the context API every stored entry's content is
\* non-empty and has no leading or trailing whitespace, and a POST, PUT or
\* PATCH whose content is empty or whitespace-only is answered 400 and
\* leaves the entry table unchanged.
C21_ContentTrimmed ==
    [][/\ \A id \in DOMAIN entries' : Trimmed(entries'[id].content)
       /\ \A u \in Users, b \in 1..Len(ContextBodies) :
            \/ ~BlankContent(ContextBodies[b])
            \/ EntryRefused
            \/ ~ContextCreate(u, ContextBodies[b])
       /\ \A u \in Users : \A id \in entry_queryset(u),
             b \in 1..Len(ContextUpdateBodies), partial \in BOOLEAN :
            \/ ~BlankContent(ContextUpdateBodies[b])
            \/ EntryRefused
            \/ ~ContextUpdate(u, id, ContextUpdateBodies[b], partial)]_vars

\* A blank content has just been refused while an entry sent as " hi" is
\* stored as "hi".
C21_Witness ==
    /\ <<"content", "blank">> \in response.errors
    /\ \E id \in DOMAIN entries : entries[id].content = <<"h", "i">>

\* A body whose timestamp lies after the current time.
FutureTimestamp(data) == "timestamp" \in DOMAIN data /\ data["timestamp"] > now

\* C22: after every step of the context API every stored entry has a
\* timestamp that is not after the current time; a POST whose timestamp is
\* after the current time is answered 400 and stores nothing; and no step
\* changes the timestamp of an entry that is already stored.
C22_TimestampNotFuture ==
    [][/\ \A id \in DOMAIN entries' :
            /\ entries'[id].timestamp # None
            /\ entries'[id].timestamp[1] <= now'
       /\ \A id \in DOMAIN entries \cap DOMAIN entries' :
            entries'[id].timestamp = entries[id].timestamp
       /\ \A u \in Users, b \in 1..Len(ContextBodies) :
            \/ ~FutureTimestamp(ContextBodies[b])
            \/ EntryRefused
            \/ ~ContextCreate(u, ContextBodies[b])]_vars

\* A future timestamp has just been refused, while an entry stored at time
\* 1 has since been updated (its content is now "ok") and time has passed.
C22_Witness ==
    /\ response.errors = {<<"timestamp", "invalid">>}
    /\ now = MaxTime
    /\ \E id \in DOMAIN entries :
        entries[id].content = <<"o", "k">> /\ entries[id].timestamp = Some(1)

(***************************************************************************)
(* Claims on the insights and comments endpoints                           *)
(***************************************************************************)

\* C23: every stored insight, after any create or update through the
\* insights endpoint, has a confidence_score between 0 and 100.
C23_ConfidenceInRange ==
    \A i \in DOMAIN insights :
        /\ insights[i].confidence_score >= Hundredths(0)
        /\ insights[i].confidence_score <= Hundredths(100)

\* The step is an update, partial update or delete of the comments API.
CommentWrite ==
    \/ \E u \in Users, id \in CommentIds, b \in 1..Len(CommentBodies),
          partial \in BOOLEAN : CommentUpdate(u, id, CommentBodies[b], partial)
    \/ \E u \in Users, id \in CommentIds : CommentDestroy(u, id)

\* C24: an update, partial update or delete of the comments API leaves
\* every stored comment stored, with the content, is_ai_generated flag,
\* author and task it had.
C24_CommentImmutable ==
    [][\/ \A c \in DOMAIN comments :
            c \in DOMAIN comments' /\ comments'[c] = comments[c]
       \/ ~CommentWrite]_vars

(***************************************************************************)
(* Claims on the AIRequest methods                                         *)
(***************************************************************************)

\* The step is a call of mark_completed or mark_failed on the request.
MarkedStep(id) ==
    \/ \E rd \in ResponseData, pt \in ProcessingTimes : AIRequest_mark_completed(id, rd, pt)
    \/ \E msg \in ErrorMessages : AIRequest_mark_failed(id, msg)

\* C25: in behaviours of creation, mark_completed, mark_failed and the
\* passing of time, no request, stored or held, ever has status timeout or
\* a retry counted, and a request that is pending is still pending after
\* every step that is not a call of mark_completed or mark_failed on it.
C25_NoTimeoutNoRetry ==
    [][/\ \A id \in DOMAIN ai_obj' :
            /\ ai_obj'[id].status # "timeout" /\ ai_db'[id].status # "timeout"
            /\ ai_obj'[id].retry_count = 0 /\ ai_db'[id].retry_count = 0
       /\ \A id \in DOMAIN ai_obj :
            \/ ai_obj[id].status # "pending"
            \/ ai_obj'[id].status = "pending" /\ ai_db'[id].status = "pending"
            \/ MarkedStep(id)]_vars

\* Request 1 is still pending at the last instant although request 2 has
\* been marked failed meanwhile.
C25_Witness ==
    /\ now = MaxTime
    /\ 2 \in DOMAIN ai_obj
    /\ ai_obj[1].status = "pending"
    /\ ai_obj[2].status = "failed"

\* C26: a call of mark_completed with a processing_time leaves the request
\* with that processing_time, 0 included; a call without leaves the
\* processing_time as it was.
C26_ProcessingTimeStored ==
    [][\A id \in DOMAIN ai_obj, rd \in ResponseData, pt \in ProcessingTimes :
        \/ ai_obj'[id].processing_time = (IF pt = None THEN ai_obj[id].processing_time ELSE pt)
        \/ ~AIRequest_mark_completed(id, rd, pt)]_vars

(***************************************************************************)
(* Claims on the overdue list, the stored status and the bulk update       *)
(***************************************************************************)

\* The user's tasks whose is_overdue property is true.
OverdueByProperty(u) == {id \in get_queryset(u) : is_overdue(tasks[id], now) = "True"}

\* The primary keys of the rows of a response.
ResultIds(r) == {r[i].id : i \in 1..Len(r)}

\* C27: the overdue endpoint lists exactly the requester's tasks whose
\* is_overdue property is true, and the dashboard's overdue_tasks is the
\* number of those tasks.
C27_OverdueMatchesProperty ==
    [][\A u \in Users :
        /\ \/ ~TaskOverdue(u)
           \/ ResultIds(response'.results) = OverdueByProperty(u)
        /\ \/ ~TaskDashboardStats(u)
           \/ response'.results[1].overdue_tasks = Cardinality(OverdueByProperty(u))]_vars

\* C28: every stored task's status is one of todo, in_progress, completed
\* and cancelled.
C28_StatusIsAChoice == \A id \in DOMAIN tasks : tasks[id].status \in STATUS_CHOICES

\* The updates are not empty and name allowed fields only.
AdmissibleUpdates(updates) == DOMAIN updates # {} /\ DOMAIN updates \subseteq allowed_fields

\* Some listed id names no task of the user.
SomeNotOwned(u, ids) == \E i \in 1..Len(ids) : ids[i] \notin get_queryset(u)

\* Some id is listed twice.
Repeated(ids) == \E i, j \in 1..Len(ids) : i < j /\ ids[i] = ids[j]

\* The updates name a category that does not exist.
MissingCategory(updates) ==
    /\ "category" \in DOMAIN updates
    /\ updates["category"] # None
    /\ updates["category"][1] \notin categories

\* The request was answered with an error and no task has changed.
BulkRefused == response'.status \in {"400", "500"} /\ tasks' = tasks

\* Every listed task, and no other, has received every field of updates.
BulkApplied(ids, updates) ==
    /\ DOMAIN tasks' = DOMAIN tasks
    /\ \A i \in DOMAIN tasks :
        IF i \in Elems(ids)
        THEN /\ \A f \in DOMAIN updates : tasks'[i][f] = updates[f]
             /\ \A f \in DOMAIN tasks[i] \ DOMAIN updates : tasks'[i][f] = tasks[i][f]
        ELSE tasks'[i] = tasks[i]

RaceDone == \A c \in {"mark_completed", "mark_failed"} : calls[c].pc \in {"saved", "raised"}

\* The row as stored before either call.
RaceRow0 == AIRequestNew(ai_db[RaceId].request_type)

\* The stored row after a call of the method alone on the stored row.
StoredAfterCompleted(row) ==
    IF ModelsHasTimezone
    THEN mark_completed_on(row, calls.mark_completed.response_data,
                           calls.mark_completed.processing_time, now)
    ELSE row
StoredAfterFailed(row) ==
    IF ModelsHasTimezone
    THEN mark_failed_on(row, calls.mark_failed.error_message, now)
    ELSE row

\* C30: once both concurrent calls are over, the stored row is what the
\* two calls leave when run one after the other in one of the two orders,
\* and it holds what each call wrote: the response data of mark_completed
\* and the error message of mark_failed.
C30_ConcurrentAsSequential ==
    RaceDone =>
        /\ ai_db[RaceId] \in {StoredAfterFailed(StoredAfterCompleted(RaceRow0)),
                              StoredAfterCompleted(StoredAfterFailed(RaceRow0))}
        /\ ai_db[RaceId].response_data = Some(calls.mark_completed.response_data)
        /\ ai_db[RaceId].error_message = calls.mark_failed.error_message

====
